---- MODULE Spec2Model ----
(***************************************************************************)
(* A model of the Rela virtual machine (tick-loop build, NDEBUG): the      *)
(* rela_vm object, its coroutine scheduler, call frames, mark/loop stacks, *)
(* scopes, object pools and collector, driven by bytecode that the         *)
(* repository's compiler emits for a fixed set of small programs.          *)
(* Instruction pointers are 0-based as in the C code; a code cell at ip is *)
(* Code[ip+1].  All other indices are 1-based sequences.                   *)
(***************************************************************************)
EXTENDS Integers, Sequences, FiniteSets, TLC

VARIABLES
    vm,     \* the rela_vm object, plus stdout and an instrumentation counter
    pc,     \* host position: "new", "idle" (created, between runs), "run", "destroyed",
            \* "null" (rela_create_ex returned NULL)
    rc,     \* the status the last rela_run_ex returned (-1: none yet)
    runs    \* number of rela_run_ex calls started so far

vars == <<vm, pc, rc, runs>>

(***************************************************************************)
(* Bounds of the model                                                     *)
(***************************************************************************)
MaxRuns == 2
NCors == 4
NMaps == 5
NVecs == 12
\* the largest step count a loop may reach
MaxStep == 12
\* the width of a C int, scaled
IntBits == 16

(***************************************************************************)
(* Program constants                                                       *)
(***************************************************************************)
STACK == 32
LOCALS == 32
COR_SUSPENDED == 0
COR_RUNNING == 1
COR_DEAD == 2

NoErr == ""
NULL == 0

(***************************************************************************)
(* Values (item_t): a type tag with an integer payload n (inum, flag, sub, *)
(* or the pool index of a vec/map/cor) and a string payload s (str, or the *)
(* name of the C function a CALLBACK points at).                           *)
(***************************************************************************)
Item(t, n, s) == [type |-> t, n |-> n, s |-> s]
nil == Item("NIL", 0, "")
integer(i) == Item("INTEGER", i, "")
string(s) == Item("STRING", 0, s)
boolean(b) == Item("BOOLEAN", IF b THEN 1 ELSE 0, "")
subroutine(ip) == Item("SUBROUTINE", ip, "")
coroutine(c) == Item("COROUTINE", c, "")
vector(v) == Item("VECTOR", v, "")
map(m) == Item("MAP", m, "")
callback(f) == Item("CALLBACK", 0, f)

Cell(op, item) == [op |-> op, cache |-> 0, item |-> item]
CellC(op, slot, item) == [op |-> op, cache |-> slot, item |-> item]

Min(a, b) == IF a < b THEN a ELSE b
SeqIns(q, i, x) == SubSeq(q, 1, i - 1) \o <<x>> \o SubSeq(q, i, Len(q))
SeqDel(q, i) == SubSeq(q, 1, i - 1) \o SubSeq(q, i + 1, Len(q))

(***************************************************************************)
(* The compiled programs: the bytecode that process()/compile() emit for   *)
(* each source text (listing of rela_decompile, cache slots as assigned    *)
(* by rela_create_ex), and the variable-name vectors its FOR literals      *)
(* refer to (allocated in the vec pool at compile time).                   *)
(***************************************************************************)
(* program pa:
     print(lib.x)
     lib.x = 5
     g = 3
     lib.collect()
     hcollect()
*)
Code_pa ==
    <<
    Cell("MARK", nil),  \* 0000
    Cell("MARK", nil),  \* 0001
    Cell("FNAME", string("lib")),  \* 0002
    Cell("GNAME", string("x")),  \* 0003
    CellC("CFUNC", 0, string("print")),  \* 0004
    Cell("LIMIT", integer(-1)),  \* 0005
    Cell("LIMIT", integer(0)),  \* 0006
    Cell("MARK", nil),  \* 0007
    Cell("LIT", integer(5)),  \* 0008
    Cell("FNAME", string("lib")),  \* 0009
    Cell("LIT", string("x")),  \* 0010
    Cell("SET", nil),  \* 0011
    Cell("LIMIT", integer(0)),  \* 0012
    Cell("LIT", integer(3)),  \* 0013
    Cell("ASSIGNP", string("g")),  \* 0014
    Cell("MARK", nil),  \* 0015
    Cell("FNAME", string("lib")),  \* 0016
    Cell("GNAME", string("collect")),  \* 0017
    Cell("SHUNT", nil),  \* 0018
    Cell("MARK", nil),  \* 0019
    Cell("SHIFT", nil),  \* 0020
    Cell("CALL", nil),  \* 0021
    Cell("LIMIT", integer(1)),  \* 0022
    Cell("LIMIT", integer(0)),  \* 0023
    Cell("MARK", nil),  \* 0024
    Cell("MARK", nil),  \* 0025
    CellC("CFUNC", 1, string("hcollect")),  \* 0026
    Cell("LIMIT", integer(-1)),  \* 0027
    Cell("LIMIT", integer(0)),  \* 0028
    Cell("STOP", nil)   \* 0029
    >>
Vecs_pa == <<>>

(* program pb:
     function body(a, b)
         c = lib.yield(a, b)
         return c
     end
     cor = lib.coroutine(body)
     print(lib.resume(cor, 1, 2))
     print(lib.resume(cor, 3))
     print(lib.resume(cor, 4))
*)
Code_pb ==
    <<
    Cell("MARK", nil),  \* 0000
    Cell("LIT", subroutine(4)),  \* 0001
    Cell("ASSIGNL", string("body")),  \* 0002
    Cell("JMP", integer(24)),  \* 0003
    Cell("PID", integer(1)),  \* 0004
    Cell("ASSIGNL", string("a")),  \* 0005
    Cell("LIT", string("b")),  \* 0006
    Cell("ASSIGN", integer(1)),  \* 0007
    Cell("CLEAN", nil),  \* 0008
    Cell("MARK", nil),  \* 0009
    Cell("FNAME", string("lib")),  \* 0010
    Cell("GNAME", string("yield")),  \* 0011
    Cell("SHUNT", nil),  \* 0012
    Cell("MARK", nil),  \* 0013
    Cell("FNAME", string("a")),  \* 0014
    Cell("FNAME", string("b")),  \* 0015
    Cell("SHIFT", nil),  \* 0016
    Cell("CALL", nil),  \* 0017
    Cell("LIMIT", integer(1)),  \* 0018
    Cell("ASSIGNL", string("c")),  \* 0019
    Cell("LIMIT", integer(0)),  \* 0020
    Cell("CLEAN", nil),  \* 0021
    Cell("FNAME", string("c")),  \* 0022
    Cell("RETURN", nil),  \* 0023
    Cell("LIMIT", integer(0)),  \* 0024
    Cell("MARK", nil),  \* 0025
    Cell("FNAME", string("lib")),  \* 0026
    Cell("GNAME", string("coroutine")),  \* 0027
    Cell("SHUNT", nil),  \* 0028
    Cell("MARK", nil),  \* 0029
    Cell("FNAME", string("body")),  \* 0030
    Cell("SHIFT", nil),  \* 0031
    Cell("CALL", nil),  \* 0032
    Cell("LIMIT", integer(1)),  \* 0033
    Cell("ASSIGNL", string("cor")),  \* 0034
    Cell("LIMIT", integer(0)),  \* 0035
    Cell("MARK", nil),  \* 0036
    Cell("MARK", nil),  \* 0037
    Cell("FNAME", string("lib")),  \* 0038
    Cell("GNAME", string("resume")),  \* 0039
    Cell("SHUNT", nil),  \* 0040
    Cell("MARK", nil),  \* 0041
    Cell("FNAME", string("cor")),  \* 0042
    Cell("LIT", integer(1)),  \* 0043
    Cell("LIT", integer(2)),  \* 0044
    Cell("SHIFT", nil),  \* 0045
    Cell("CALL", nil),  \* 0046
    Cell("LIMIT", integer(1)),  \* 0047
    CellC("CFUNC", 0, string("print")),  \* 0048
    Cell("LIMIT", integer(-1)),  \* 0049
    Cell("LIMIT", integer(0)),  \* 0050
    Cell("MARK", nil),  \* 0051
    Cell("MARK", nil),  \* 0052
    Cell("FNAME", string("lib")),  \* 0053
    Cell("GNAME", string("resume")),  \* 0054
    Cell("SHUNT", nil),  \* 0055
    Cell("MARK", nil),  \* 0056
    Cell("FNAME", string("cor")),  \* 0057
    Cell("LIT", integer(3)),  \* 0058
    Cell("SHIFT", nil),  \* 0059
    Cell("CALL", nil),  \* 0060
    Cell("LIMIT", integer(1)),  \* 0061
    CellC("CFUNC", 1, string("print")),  \* 0062
    Cell("LIMIT", integer(-1)),  \* 0063
    Cell("LIMIT", integer(0)),  \* 0064
    Cell("MARK", nil),  \* 0065
    Cell("MARK", nil),  \* 0066
    Cell("FNAME", string("lib")),  \* 0067
    Cell("GNAME", string("resume")),  \* 0068
    Cell("SHUNT", nil),  \* 0069
    Cell("MARK", nil),  \* 0070
    Cell("FNAME", string("cor")),  \* 0071
    Cell("LIT", integer(4)),  \* 0072
    Cell("SHIFT", nil),  \* 0073
    Cell("CALL", nil),  \* 0074
    Cell("LIMIT", integer(1)),  \* 0075
    CellC("CFUNC", 2, string("print")),  \* 0076
    Cell("LIMIT", integer(-1)),  \* 0077
    Cell("LIMIT", integer(0)),  \* 0078
    Cell("STOP", nil)   \* 0079
    >>
Vecs_pb == <<>>

(* program pc:
     function inner(n)
         lib.yield(n, 8)
     end
     function outer(n)
         ci = lib.coroutine(inner)
         v, w = lib.resume(ci, n)
         lib.yield(v)
         lib.yield()
     end
     co = lib.coroutine(outer)
     print(lib.resume(co, 7))
     print(lib.resume(co))
*)
Code_pc ==
    <<
    Cell("MARK", nil),  \* 0000
    Cell("LIT", subroutine(4)),  \* 0001
    Cell("ASSIGNL", string("inner")),  \* 0002
    Cell("JMP", integer(20)),  \* 0003
    Cell("PID", integer(1)),  \* 0004
    Cell("ASSIGNL", string("n")),  \* 0005
    Cell("CLEAN", nil),  \* 0006
    Cell("MARK", nil),  \* 0007
    Cell("FNAME", string("lib")),  \* 0008
    Cell("GNAME", string("yield")),  \* 0009
    Cell("SHUNT", nil),  \* 0010
    Cell("MARK", nil),  \* 0011
    Cell("FNAME", string("n")),  \* 0012
    Cell("LIT", integer(8)),  \* 0013
    Cell("SHIFT", nil),  \* 0014
    Cell("CALL", nil),  \* 0015
    Cell("LIMIT", integer(1)),  \* 0016
    Cell("LIMIT", integer(0)),  \* 0017
    Cell("CLEAN", nil),  \* 0018
    Cell("RETURN", nil),  \* 0019
    Cell("LIMIT", integer(0)),  \* 0020
    Cell("MARK", nil),  \* 0021
    Cell("LIT", subroutine(25)),  \* 0022
    Cell("ASSIGNL", string("outer")),  \* 0023
    Cell("JMP", integer(74)),  \* 0024
    Cell("PID", integer(2)),  \* 0025
    Cell("ASSIGNL", string("n")),  \* 0026
    Cell("CLEAN", nil),  \* 0027
    Cell("MARK", nil),  \* 0028
    Cell("FNAME", string("lib")),  \* 0029
    Cell("GNAME", string("coroutine")),  \* 0030
    Cell("SHUNT", nil),  \* 0031
    Cell("MARK", nil),  \* 0032
    Cell("FNAME", string("inner")),  \* 0033
    Cell("SHIFT", nil),  \* 0034
    Cell("CALL", nil),  \* 0035
    Cell("LIMIT", integer(1)),  \* 0036
    Cell("ASSIGNL", string("ci")),  \* 0037
    Cell("LIMIT", integer(0)),  \* 0038
    Cell("MARK", nil),  \* 0039
    Cell("FNAME", string("lib")),  \* 0040
    Cell("GNAME", string("resume")),  \* 0041
    Cell("SHUNT", nil),  \* 0042
    Cell("MARK", nil),  \* 0043
    Cell("FNAME", string("ci")),  \* 0044
    Cell("FNAME", string("n")),  \* 0045
    Cell("SHIFT", nil),  \* 0046
    Cell("CALL", nil),  \* 0047
    Cell("LIMIT", integer(1)),  \* 0048
    Cell("ASSIGNL", string("v")),  \* 0049
    Cell("LIT", string("w")),  \* 0050
    Cell("ASSIGN", integer(1)),  \* 0051
    Cell("LIMIT", integer(0)),  \* 0052
    Cell("MARK", nil),  \* 0053
    Cell("FNAME", string("lib")),  \* 0054
    Cell("GNAME", string("yield")),  \* 0055
    Cell("SHUNT", nil),  \* 0056
    Cell("MARK", nil),  \* 0057
    Cell("FNAME", string("v")),  \* 0058
    Cell("SHIFT", nil),  \* 0059
    Cell("CALL", nil),  \* 0060
    Cell("LIMIT", integer(1)),  \* 0061
    Cell("LIMIT", integer(0)),  \* 0062
    Cell("MARK", nil),  \* 0063
    Cell("FNAME", string("lib")),  \* 0064
    Cell("GNAME", string("yield")),  \* 0065
    Cell("SHUNT", nil),  \* 0066
    Cell("MARK", nil),  \* 0067
    Cell("SHIFT", nil),  \* 0068
    Cell("CALL", nil),  \* 0069
    Cell("LIMIT", integer(1)),  \* 0070
    Cell("LIMIT", integer(0)),  \* 0071
    Cell("CLEAN", nil),  \* 0072
    Cell("RETURN", nil),  \* 0073
    Cell("LIMIT", integer(0)),  \* 0074
    Cell("MARK", nil),  \* 0075
    Cell("FNAME", string("lib")),  \* 0076
    Cell("GNAME", string("coroutine")),  \* 0077
    Cell("SHUNT", nil),  \* 0078
    Cell("MARK", nil),  \* 0079
    Cell("FNAME", string("outer")),  \* 0080
    Cell("SHIFT", nil),  \* 0081
    Cell("CALL", nil),  \* 0082
    Cell("LIMIT", integer(1)),  \* 0083
    Cell("ASSIGNL", string("co")),  \* 0084
    Cell("LIMIT", integer(0)),  \* 0085
    Cell("MARK", nil),  \* 0086
    Cell("MARK", nil),  \* 0087
    Cell("FNAME", string("lib")),  \* 0088
    Cell("GNAME", string("resume")),  \* 0089
    Cell("SHUNT", nil),  \* 0090
    Cell("MARK", nil),  \* 0091
    Cell("FNAME", string("co")),  \* 0092
    Cell("LIT", integer(7)),  \* 0093
    Cell("SHIFT", nil),  \* 0094
    Cell("CALL", nil),  \* 0095
    Cell("LIMIT", integer(1)),  \* 0096
    CellC("CFUNC", 0, string("print")),  \* 0097
    Cell("LIMIT", integer(-1)),  \* 0098
    Cell("LIMIT", integer(0)),  \* 0099
    Cell("MARK", nil),  \* 0100
    Cell("MARK", nil),  \* 0101
    Cell("FNAME", string("lib")),  \* 0102
    Cell("GNAME", string("resume")),  \* 0103
    Cell("SHUNT", nil),  \* 0104
    Cell("MARK", nil),  \* 0105
    Cell("FNAME", string("co")),  \* 0106
    Cell("SHIFT", nil),  \* 0107
    Cell("CALL", nil),  \* 0108
    Cell("LIMIT", integer(1)),  \* 0109
    CellC("CFUNC", 1, string("print")),  \* 0110
    Cell("LIMIT", integer(-1)),  \* 0111
    Cell("LIMIT", integer(0)),  \* 0112
    Cell("STOP", nil)   \* 0113
    >>
Vecs_pc == <<>>

(* program pd:
     function top(a, b) return b, a end
     function inwhile(a) while a return 3 end end
     function infor(a) for i in 2 return i, a end end
     function iniffor(a) for i in 2 if a return i end end end
     print(top(1, 2))
     print(inwhile(true))
     print(infor(9))
     print(iniffor(true))
*)
Code_pd ==
    <<
    Cell("MARK", nil),  \* 0000
    Cell("LIT", subroutine(4)),  \* 0001
    Cell("ASSIGNL", string("top")),  \* 0002
    Cell("JMP", integer(12)),  \* 0003
    Cell("PID", integer(1)),  \* 0004
    Cell("ASSIGNL", string("a")),  \* 0005
    Cell("LIT", string("b")),  \* 0006
    Cell("ASSIGN", integer(1)),  \* 0007
    Cell("CLEAN", nil),  \* 0008
    Cell("FNAME", string("b")),  \* 0009
    Cell("FNAME", string("a")),  \* 0010
    Cell("RETURN", nil),  \* 0011
    Cell("LIMIT", integer(0)),  \* 0012
    Cell("MARK", nil),  \* 0013
    Cell("LIT", subroutine(17)),  \* 0014
    Cell("ASSIGNL", string("inwhile")),  \* 0015
    Cell("JMP", integer(35)),  \* 0016
    Cell("PID", integer(2)),  \* 0017
    Cell("ASSIGNL", string("a")),  \* 0018
    Cell("CLEAN", nil),  \* 0019
    Cell("MARK", nil),  \* 0020
    Cell("LOOP", integer(31)),  \* 0021
    Cell("MARK", nil),  \* 0022
    Cell("FNAME", string("a")),  \* 0023
    Cell("LIMIT", integer(1)),  \* 0024
    Cell("JFALSE", integer(31)),  \* 0025
    Cell("DROP", nil),  \* 0026
    Cell("CLEAN", nil),  \* 0027
    Cell("LIT", integer(3)),  \* 0028
    Cell("RETURN", nil),  \* 0029
    Cell("JMP", integer(22)),  \* 0030
    Cell("UNLOOP", nil),  \* 0031
    Cell("LIMIT", integer(0)),  \* 0032
    Cell("CLEAN", nil),  \* 0033
    Cell("RETURN", nil),  \* 0034
    Cell("LIMIT", integer(0)),  \* 0035
    Cell("MARK", nil),  \* 0036
    Cell("LIT", subroutine(40)),  \* 0037
    Cell("ASSIGNL", string("infor")),  \* 0038
    Cell("JMP", integer(56)),  \* 0039
    Cell("PID", integer(3)),  \* 0040
    Cell("ASSIGNL", string("a")),  \* 0041
    Cell("CLEAN", nil),  \* 0042
    Cell("MARK", nil),  \* 0043
    Cell("LIT", integer(2)),  \* 0044
    Cell("LOOP", integer(52)),  \* 0045
    Cell("FOR", vector(1)),  \* 0046
    Cell("CLEAN", nil),  \* 0047
    Cell("FNAME", string("i")),  \* 0048
    Cell("FNAME", string("a")),  \* 0049
    Cell("RETURN", nil),  \* 0050
    Cell("JMP", integer(46)),  \* 0051
    Cell("UNLOOP", nil),  \* 0052
    Cell("LIMIT", integer(0)),  \* 0053
    Cell("CLEAN", nil),  \* 0054
    Cell("RETURN", nil),  \* 0055
    Cell("LIMIT", integer(0)),  \* 0056
    Cell("MARK", nil),  \* 0057
    Cell("LIT", subroutine(61)),  \* 0058
    Cell("ASSIGNL", string("iniffor")),  \* 0059
    Cell("JMP", integer(83)),  \* 0060
    Cell("PID", integer(4)),  \* 0061
    Cell("ASSIGNL", string("a")),  \* 0062
    Cell("CLEAN", nil),  \* 0063
    Cell("MARK", nil),  \* 0064
    Cell("LIT", integer(2)),  \* 0065
    Cell("LOOP", integer(79)),  \* 0066
    Cell("FOR", vector(2)),  \* 0067
    Cell("MARK", nil),  \* 0068
    Cell("MARK", nil),  \* 0069
    Cell("FNAME", string("a")),  \* 0070
    Cell("LIMIT", integer(1)),  \* 0071
    Cell("JFALSE", integer(77)),  \* 0072
    Cell("DROP", nil),  \* 0073
    Cell("CLEAN", nil),  \* 0074
    Cell("FNAME", string("i")),  \* 0075
    Cell("RETURN", nil),  \* 0076
    Cell("LIMIT", integer(0)),  \* 0077
    Cell("JMP", integer(67)),  \* 0078
    Cell("UNLOOP", nil),  \* 0079
    Cell("LIMIT", integer(0)),  \* 0080
    Cell("CLEAN", nil),  \* 0081
    Cell("RETURN", nil),  \* 0082
    Cell("LIMIT", integer(0)),  \* 0083
    Cell("MARK", nil),  \* 0084
    Cell("MARK", nil),  \* 0085
    Cell("MARK", nil),  \* 0086
    Cell("LIT", integer(1)),  \* 0087
    Cell("LIT", integer(2)),  \* 0088
    CellC("CFUNC", 0, string("top")),  \* 0089
    Cell("LIMIT", integer(-1)),  \* 0090
    CellC("CFUNC", 1, string("print")),  \* 0091
    Cell("LIMIT", integer(-1)),  \* 0092
    Cell("LIMIT", integer(0)),  \* 0093
    Cell("MARK", nil),  \* 0094
    Cell("MARK", nil),  \* 0095
    Cell("MARK", nil),  \* 0096
    Cell("TRUE", nil),  \* 0097
    CellC("CFUNC", 2, string("inwhile")),  \* 0098
    Cell("LIMIT", integer(-1)),  \* 0099
    CellC("CFUNC", 3, string("print")),  \* 0100
    Cell("LIMIT", integer(-1)),  \* 0101
    Cell("LIMIT", integer(0)),  \* 0102
    Cell("MARK", nil),  \* 0103
    Cell("MARK", nil),  \* 0104
    Cell("MARK", nil),  \* 0105
    Cell("LIT", integer(9)),  \* 0106
    CellC("CFUNC", 4, string("infor")),  \* 0107
    Cell("LIMIT", integer(-1)),  \* 0108
    CellC("CFUNC", 5, string("print")),  \* 0109
    Cell("LIMIT", integer(-1)),  \* 0110
    Cell("LIMIT", integer(0)),  \* 0111
    Cell("MARK", nil),  \* 0112
    Cell("MARK", nil),  \* 0113
    Cell("MARK", nil),  \* 0114
    Cell("TRUE", nil),  \* 0115
    CellC("CFUNC", 6, string("iniffor")),  \* 0116
    Cell("LIMIT", integer(-1)),  \* 0117
    CellC("CFUNC", 7, string("print")),  \* 0118
    Cell("LIMIT", integer(-1)),  \* 0119
    Cell("LIMIT", integer(0)),  \* 0120
    Cell("STOP", nil)   \* 0121
    >>
Vecs_pd == <<<<string("i")>>, <<string("i")>>>>

(* program pf:
     function make(x) function g() return x end return g() end
     print(make(7))
*)
Code_pf ==
    <<
    Cell("MARK", nil),  \* 0000
    Cell("LIT", subroutine(4)),  \* 0001
    Cell("ASSIGNL", string("make")),  \* 0002
    Cell("JMP", integer(22)),  \* 0003
    Cell("PID", integer(1)),  \* 0004
    Cell("ASSIGNL", string("x")),  \* 0005
    Cell("CLEAN", nil),  \* 0006
    Cell("MARK", nil),  \* 0007
    Cell("LIT", subroutine(11)),  \* 0008
    Cell("ASSIGNL", string("g")),  \* 0009
    Cell("JMP", integer(16)),  \* 0010
    Cell("PID", integer(2)),  \* 0011
    Cell("PID", integer(1)),  \* 0012
    Cell("CLEAN", nil),  \* 0013
    Cell("FNAME", string("x")),  \* 0014
    Cell("RETURN", nil),  \* 0015
    Cell("LIMIT", integer(0)),  \* 0016
    Cell("CLEAN", nil),  \* 0017
    Cell("MARK", nil),  \* 0018
    CellC("CFUNC", 0, string("g")),  \* 0019
    Cell("LIMIT", integer(-1)),  \* 0020
    Cell("RETURN", nil),  \* 0021
    Cell("LIMIT", integer(0)),  \* 0022
    Cell("MARK", nil),  \* 0023
    Cell("MARK", nil),  \* 0024
    Cell("MARK", nil),  \* 0025
    Cell("LIT", integer(7)),  \* 0026
    CellC("CFUNC", 1, string("make")),  \* 0027
    Cell("LIMIT", integer(-1)),  \* 0028
    CellC("CFUNC", 2, string("print")),  \* 0029
    Cell("LIMIT", integer(-1)),  \* 0030
    Cell("LIMIT", integer(0)),  \* 0031
    Cell("STOP", nil)   \* 0032
    >>
Vecs_pf == <<>>

(* program pt7:
     function make(x) return function() return x end end
     f = make(7)
     print(f())
*)
Code_pt7 ==
    <<
    Cell("MARK", nil),  \* 0000
    Cell("LIT", subroutine(4)),  \* 0001
    Cell("ASSIGNL", string("make")),  \* 0002
    Cell("JMP", integer(17)),  \* 0003
    Cell("PID", integer(1)),  \* 0004
    Cell("ASSIGNL", string("x")),  \* 0005
    Cell("CLEAN", nil),  \* 0006
    Cell("MARK", nil),  \* 0007
    Cell("LIT", subroutine(10)),  \* 0008
    Cell("JMP", integer(15)),  \* 0009
    Cell("PID", integer(2)),  \* 0010
    Cell("PID", integer(1)),  \* 0011
    Cell("CLEAN", nil),  \* 0012
    Cell("FNAME", string("x")),  \* 0013
    Cell("RETURN", nil),  \* 0014
    Cell("LIMIT", integer(1)),  \* 0015
    Cell("RETURN", nil),  \* 0016
    Cell("LIMIT", integer(0)),  \* 0017
    Cell("MARK", nil),  \* 0018
    Cell("MARK", nil),  \* 0019
    Cell("LIT", integer(7)),  \* 0020
    CellC("CFUNC", 0, string("make")),  \* 0021
    Cell("LIMIT", integer(-1)),  \* 0022
    Cell("ASSIGNL", string("f")),  \* 0023
    Cell("LIMIT", integer(0)),  \* 0024
    Cell("MARK", nil),  \* 0025
    Cell("MARK", nil),  \* 0026
    Cell("MARK", nil),  \* 0027
    CellC("CFUNC", 1, string("f")),  \* 0028
    Cell("LIMIT", integer(-1)),  \* 0029
    CellC("CFUNC", 2, string("print")),  \* 0030
    Cell("LIMIT", integer(-1)),  \* 0031
    Cell("LIMIT", integer(0)),  \* 0032
    Cell("STOP", nil)   \* 0033
    >>
Vecs_pt7 == <<>>

(* program pe1:
     g = 1
     lib.assert(false)
*)
Code_pe1 ==
    <<
    Cell("LIT", integer(1)),  \* 0000
    Cell("ASSIGNP", string("g")),  \* 0001
    Cell("MARK", nil),  \* 0002
    Cell("FNAME", string("lib")),  \* 0003
    Cell("GNAME", string("assert")),  \* 0004
    Cell("SHUNT", nil),  \* 0005
    Cell("MARK", nil),  \* 0006
    Cell("FALSE", nil),  \* 0007
    Cell("SHIFT", nil),  \* 0008
    Cell("CALL", nil),  \* 0009
    Cell("LIMIT", integer(1)),  \* 0010
    Cell("LIMIT", integer(0)),  \* 0011
    Cell("STOP", nil)   \* 0012
    >>
Vecs_pe1 == <<>>

(* program pe2:
     x = 1
     x.y = 2
*)
Code_pe2 ==
    <<
    Cell("LIT", integer(1)),  \* 0000
    Cell("ASSIGNP", string("x")),  \* 0001
    Cell("MARK", nil),  \* 0002
    Cell("LIT", integer(2)),  \* 0003
    Cell("FNAME", string("x")),  \* 0004
    Cell("LIT", string("y")),  \* 0005
    Cell("SET", nil),  \* 0006
    Cell("LIMIT", integer(0)),  \* 0007
    Cell("STOP", nil)   \* 0008
    >>
Vecs_pe2 == <<>>

(* program pe3:
     function gen(n) if n lib.assert(false) end return 5 end
     for i in gen end
*)
Code_pe3 ==
    <<
    Cell("MARK", nil),  \* 0000
    Cell("LIT", subroutine(4)),  \* 0001
    Cell("ASSIGNL", string("gen")),  \* 0002
    Cell("JMP", integer(27)),  \* 0003
    Cell("PID", integer(1)),  \* 0004
    Cell("ASSIGNL", string("n")),  \* 0005
    Cell("CLEAN", nil),  \* 0006
    Cell("MARK", nil),  \* 0007
    Cell("MARK", nil),  \* 0008
    Cell("FNAME", string("n")),  \* 0009
    Cell("LIMIT", integer(1)),  \* 0010
    Cell("JFALSE", integer(23)),  \* 0011
    Cell("DROP", nil),  \* 0012
    Cell("MARK", nil),  \* 0013
    Cell("FNAME", string("lib")),  \* 0014
    Cell("GNAME", string("assert")),  \* 0015
    Cell("SHUNT", nil),  \* 0016
    Cell("MARK", nil),  \* 0017
    Cell("FALSE", nil),  \* 0018
    Cell("SHIFT", nil),  \* 0019
    Cell("CALL", nil),  \* 0020
    Cell("LIMIT", integer(1)),  \* 0021
    Cell("LIMIT", integer(1)),  \* 0022
    Cell("LIMIT", integer(0)),  \* 0023
    Cell("CLEAN", nil),  \* 0024
    Cell("LIT", integer(5)),  \* 0025
    Cell("RETURN", nil),  \* 0026
    Cell("LIMIT", integer(0)),  \* 0027
    Cell("MARK", nil),  \* 0028
    Cell("MARK", nil),  \* 0029
    Cell("FNAME", string("gen")),  \* 0030
    Cell("LIMIT", integer(1)),  \* 0031
    Cell("LOOP", integer(35)),  \* 0032
    Cell("FOR", vector(1)),  \* 0033
    Cell("JMP", integer(33)),  \* 0034
    Cell("UNLOOP", nil),  \* 0035
    Cell("LIMIT", integer(0)),  \* 0036
    Cell("STOP", nil)   \* 0037
    >>
Vecs_pe3 == <<<<string("i")>>>>

(* program pe4:
     function b() lib.assert(false) end
     c = lib.coroutine(b)
     lib.resume(c)
*)
Code_pe4 ==
    <<
    Cell("MARK", nil),  \* 0000
    Cell("LIT", subroutine(4)),  \* 0001
    Cell("ASSIGNL", string("b")),  \* 0002
    Cell("JMP", integer(18)),  \* 0003
    Cell("PID", integer(1)),  \* 0004
    Cell("CLEAN", nil),  \* 0005
    Cell("MARK", nil),  \* 0006
    Cell("FNAME", string("lib")),  \* 0007
    Cell("GNAME", string("assert")),  \* 0008
    Cell("SHUNT", nil),  \* 0009
    Cell("MARK", nil),  \* 0010
    Cell("FALSE", nil),  \* 0011
    Cell("SHIFT", nil),  \* 0012
    Cell("CALL", nil),  \* 0013
    Cell("LIMIT", integer(1)),  \* 0014
    Cell("LIMIT", integer(0)),  \* 0015
    Cell("CLEAN", nil),  \* 0016
    Cell("RETURN", nil),  \* 0017
    Cell("LIMIT", integer(0)),  \* 0018
    Cell("MARK", nil),  \* 0019
    Cell("FNAME", string("lib")),  \* 0020
    Cell("GNAME", string("coroutine")),  \* 0021
    Cell("SHUNT", nil),  \* 0022
    Cell("MARK", nil),  \* 0023
    Cell("FNAME", string("b")),  \* 0024
    Cell("SHIFT", nil),  \* 0025
    Cell("CALL", nil),  \* 0026
    Cell("LIMIT", integer(1)),  \* 0027
    Cell("ASSIGNL", string("c")),  \* 0028
    Cell("LIMIT", integer(0)),  \* 0029
    Cell("MARK", nil),  \* 0030
    Cell("FNAME", string("lib")),  \* 0031
    Cell("GNAME", string("resume")),  \* 0032
    Cell("SHUNT", nil),  \* 0033
    Cell("MARK", nil),  \* 0034
    Cell("FNAME", string("c")),  \* 0035
    Cell("SHIFT", nil),  \* 0036
    Cell("CALL", nil),  \* 0037
    Cell("LIMIT", integer(1)),  \* 0038
    Cell("LIMIT", integer(0)),  \* 0039
    Cell("STOP", nil)   \* 0040
    >>
Vecs_pe4 == <<>>

(* program pg:
     function it() lib.yield(1) end
     c = lib.coroutine(it)
     for x in c print(x) end
*)
Code_pg ==
    <<
    Cell("MARK", nil),  \* 0000
    Cell("LIT", subroutine(4)),  \* 0001
    Cell("ASSIGNL", string("it")),  \* 0002
    Cell("JMP", integer(18)),  \* 0003
    Cell("PID", integer(1)),  \* 0004
    Cell("CLEAN", nil),  \* 0005
    Cell("MARK", nil),  \* 0006
    Cell("FNAME", string("lib")),  \* 0007
    Cell("GNAME", string("yield")),  \* 0008
    Cell("SHUNT", nil),  \* 0009
    Cell("MARK", nil),  \* 0010
    Cell("LIT", integer(1)),  \* 0011
    Cell("SHIFT", nil),  \* 0012
    Cell("CALL", nil),  \* 0013
    Cell("LIMIT", integer(1)),  \* 0014
    Cell("LIMIT", integer(0)),  \* 0015
    Cell("CLEAN", nil),  \* 0016
    Cell("RETURN", nil),  \* 0017
    Cell("LIMIT", integer(0)),  \* 0018
    Cell("MARK", nil),  \* 0019
    Cell("FNAME", string("lib")),  \* 0020
    Cell("GNAME", string("coroutine")),  \* 0021
    Cell("SHUNT", nil),  \* 0022
    Cell("MARK", nil),  \* 0023
    Cell("FNAME", string("it")),  \* 0024
    Cell("SHIFT", nil),  \* 0025
    Cell("CALL", nil),  \* 0026
    Cell("LIMIT", integer(1)),  \* 0027
    Cell("ASSIGNL", string("c")),  \* 0028
    Cell("LIMIT", integer(0)),  \* 0029
    Cell("MARK", nil),  \* 0030
    Cell("MARK", nil),  \* 0031
    Cell("FNAME", string("c")),  \* 0032
    Cell("LIMIT", integer(1)),  \* 0033
    Cell("LOOP", integer(43)),  \* 0034
    Cell("FOR", vector(1)),  \* 0035
    Cell("MARK", nil),  \* 0036
    Cell("MARK", nil),  \* 0037
    Cell("FNAME", string("x")),  \* 0038
    CellC("CFUNC", 0, string("print")),  \* 0039
    Cell("LIMIT", integer(-1)),  \* 0040
    Cell("LIMIT", integer(0)),  \* 0041
    Cell("JMP", integer(35)),  \* 0042
    Cell("UNLOOP", nil),  \* 0043
    Cell("LIMIT", integer(0)),  \* 0044
    Cell("STOP", nil)   \* 0045
    >>
Vecs_pg == <<<<string("x")>>>>

(* program ph:
     print(lib.x)
     lib.x = 5
     lib.assert(false)
*)
Code_ph ==
    <<
    Cell("MARK", nil),  \* 0000
    Cell("MARK", nil),  \* 0001
    Cell("FNAME", string("lib")),  \* 0002
    Cell("GNAME", string("x")),  \* 0003
    CellC("CFUNC", 0, string("print")),  \* 0004
    Cell("LIMIT", integer(-1)),  \* 0005
    Cell("LIMIT", integer(0)),  \* 0006
    Cell("MARK", nil),  \* 0007
    Cell("LIT", integer(5)),  \* 0008
    Cell("FNAME", string("lib")),  \* 0009
    Cell("LIT", string("x")),  \* 0010
    Cell("SET", nil),  \* 0011
    Cell("LIMIT", integer(0)),  \* 0012
    Cell("MARK", nil),  \* 0013
    Cell("FNAME", string("lib")),  \* 0014
    Cell("GNAME", string("assert")),  \* 0015
    Cell("SHUNT", nil),  \* 0016
    Cell("MARK", nil),  \* 0017
    Cell("FALSE", nil),  \* 0018
    Cell("SHIFT", nil),  \* 0019
    Cell("CALL", nil),  \* 0020
    Cell("LIMIT", integer(1)),  \* 0021
    Cell("LIMIT", integer(0)),  \* 0022
    Cell("STOP", nil)   \* 0023
    >>
Vecs_ph == <<>>

(* program pi:
     function one() return 1 end
     function two() return 2 end
     function apply(h) return h() end
     print(apply(one))
     print(apply(two))
*)
Code_pi ==
    <<
    Cell("MARK", nil),  \* 0000
    Cell("LIT", subroutine(4)),  \* 0001
    Cell("ASSIGNL", string("one")),  \* 0002
    Cell("JMP", integer(8)),  \* 0003
    Cell("PID", integer(1)),  \* 0004
    Cell("CLEAN", nil),  \* 0005
    Cell("LIT", integer(1)),  \* 0006
    Cell("RETURN", nil),  \* 0007
    Cell("LIMIT", integer(0)),  \* 0008
    Cell("MARK", nil),  \* 0009
    Cell("LIT", subroutine(13)),  \* 0010
    Cell("ASSIGNL", string("two")),  \* 0011
    Cell("JMP", integer(17)),  \* 0012
    Cell("PID", integer(2)),  \* 0013
    Cell("CLEAN", nil),  \* 0014
    Cell("LIT", integer(2)),  \* 0015
    Cell("RETURN", nil),  \* 0016
    Cell("LIMIT", integer(0)),  \* 0017
    Cell("MARK", nil),  \* 0018
    Cell("LIT", subroutine(22)),  \* 0019
    Cell("ASSIGNL", string("apply")),  \* 0020
    Cell("JMP", integer(29)),  \* 0021
    Cell("PID", integer(3)),  \* 0022
    Cell("ASSIGNL", string("h")),  \* 0023
    Cell("CLEAN", nil),  \* 0024
    Cell("MARK", nil),  \* 0025
    CellC("CFUNC", 0, string("h")),  \* 0026
    Cell("LIMIT", integer(-1)),  \* 0027
    Cell("RETURN", nil),  \* 0028
    Cell("LIMIT", integer(0)),  \* 0029
    Cell("MARK", nil),  \* 0030
    Cell("MARK", nil),  \* 0031
    Cell("MARK", nil),  \* 0032
    Cell("FNAME", string("one")),  \* 0033
    CellC("CFUNC", 1, string("apply")),  \* 0034
    Cell("LIMIT", integer(-1)),  \* 0035
    CellC("CFUNC", 2, string("print")),  \* 0036
    Cell("LIMIT", integer(-1)),  \* 0037
    Cell("LIMIT", integer(0)),  \* 0038
    Cell("MARK", nil),  \* 0039
    Cell("MARK", nil),  \* 0040
    Cell("MARK", nil),  \* 0041
    Cell("FNAME", string("two")),  \* 0042
    CellC("CFUNC", 3, string("apply")),  \* 0043
    Cell("LIMIT", integer(-1)),  \* 0044
    CellC("CFUNC", 4, string("print")),  \* 0045
    Cell("LIMIT", integer(-1)),  \* 0046
    Cell("LIMIT", integer(0)),  \* 0047
    Cell("STOP", nil)   \* 0048
    >>
Vecs_pi == <<>>

(* program pj:
     x = 1
     y = 1
     z = 3
     function f()
       x = x + 1
       y = y + x
       z = z * 2
       print(x, y, z)
     end
     f()
     print(x, y, z)
*)
Code_pj ==
    <<
    Cell("LIT", integer(1)),  \* 0000
    Cell("ASSIGNP", string("x")),  \* 0001
    Cell("LIT", integer(1)),  \* 0002
    Cell("ASSIGNP", string("y")),  \* 0003
    Cell("LIT", integer(3)),  \* 0004
    Cell("ASSIGNP", string("z")),  \* 0005
    Cell("MARK", nil),  \* 0006
    Cell("LIT", subroutine(10)),  \* 0007
    Cell("ASSIGNL", string("f")),  \* 0008
    Cell("JMP", integer(32)),  \* 0009
    Cell("PID", integer(1)),  \* 0010
    Cell("CLEAN", nil),  \* 0011
    Cell("UPDATE", string("x")),  \* 0012
    Cell("ADD_LIT", integer(1)),  \* 0013
    Cell("MARK", nil),  \* 0014
    Cell("FNAME", string("y")),  \* 0015
    Cell("FNAME", string("x")),  \* 0016
    Cell("ADD", nil),  \* 0017
    Cell("ASSIGNL", string("y")),  \* 0018
    Cell("LIMIT", integer(0)),  \* 0019
    Cell("UPDATE", string("z")),  \* 0020
    Cell("MUL_LIT", integer(2)),  \* 0021
    Cell("MARK", nil),  \* 0022
    Cell("MARK", nil),  \* 0023
    Cell("FNAME", string("x")),  \* 0024
    Cell("FNAME", string("y")),  \* 0025
    Cell("FNAME", string("z")),  \* 0026
    CellC("CFUNC", 0, string("print")),  \* 0027
    Cell("LIMIT", integer(-1)),  \* 0028
    Cell("LIMIT", integer(0)),  \* 0029
    Cell("CLEAN", nil),  \* 0030
    Cell("RETURN", nil),  \* 0031
    Cell("LIMIT", integer(0)),  \* 0032
    Cell("MARK", nil),  \* 0033
    Cell("MARK", nil),  \* 0034
    CellC("CFUNC", 1, string("f")),  \* 0035
    Cell("LIMIT", integer(-1)),  \* 0036
    Cell("LIMIT", integer(0)),  \* 0037
    Cell("MARK", nil),  \* 0038
    Cell("MARK", nil),  \* 0039
    Cell("FNAME", string("x")),  \* 0040
    Cell("FNAME", string("y")),  \* 0041
    Cell("FNAME", string("z")),  \* 0042
    CellC("CFUNC", 2, string("print")),  \* 0043
    Cell("LIMIT", integer(-1)),  \* 0044
    Cell("LIMIT", integer(0)),  \* 0045
    Cell("STOP", nil)   \* 0046
    >>
Vecs_pj == <<>>

(* program pk:
     m = {}
     k = 1
     m[k] = 10
     m["a"] = 20
     m[k] = 30
     for k,v in m print(k, v) end
     m[k] = nil
     for k,v in m print(k, v) end
     s = "a"
     s = s + 1
*)
Code_pk ==
    <<
    Cell("MARK", nil),  \* 0000
    Cell("MARK", nil),  \* 0001
    Cell("MAP", nil),  \* 0002
    Cell("UNMAP", nil),  \* 0003
    Cell("LIMIT", integer(1)),  \* 0004
    Cell("ASSIGNL", string("m")),  \* 0005
    Cell("LIMIT", integer(0)),  \* 0006
    Cell("LIT", integer(1)),  \* 0007
    Cell("ASSIGNP", string("k")),  \* 0008
    Cell("MARK", nil),  \* 0009
    Cell("LIT", integer(10)),  \* 0010
    Cell("FNAME", string("m")),  \* 0011
    Cell("FNAME", string("k")),  \* 0012
    Cell("SET", nil),  \* 0013
    Cell("LIMIT", integer(0)),  \* 0014
    Cell("MARK", nil),  \* 0015
    Cell("LIT", integer(20)),  \* 0016
    Cell("FNAME", string("m")),  \* 0017
    Cell("LIT", string("a")),  \* 0018
    Cell("SET", nil),  \* 0019
    Cell("LIMIT", integer(0)),  \* 0020
    Cell("MARK", nil),  \* 0021
    Cell("LIT", integer(30)),  \* 0022
    Cell("FNAME", string("m")),  \* 0023
    Cell("FNAME", string("k")),  \* 0024
    Cell("SET", nil),  \* 0025
    Cell("LIMIT", integer(0)),  \* 0026
    Cell("MARK", nil),  \* 0027
    Cell("MARK", nil),  \* 0028
    Cell("FNAME", string("m")),  \* 0029
    Cell("LIMIT", integer(1)),  \* 0030
    Cell("LOOP", integer(41)),  \* 0031
    Cell("FOR", vector(1)),  \* 0032
    Cell("MARK", nil),  \* 0033
    Cell("MARK", nil),  \* 0034
    Cell("FNAME", string("k")),  \* 0035
    Cell("FNAME", string("v")),  \* 0036
    CellC("CFUNC", 0, string("print")),  \* 0037
    Cell("LIMIT", integer(-1)),  \* 0038
    Cell("LIMIT", integer(0)),  \* 0039
    Cell("JMP", integer(32)),  \* 0040
    Cell("UNLOOP", nil),  \* 0041
    Cell("LIMIT", integer(0)),  \* 0042
    Cell("MARK", nil),  \* 0043
    Cell("NIL", nil),  \* 0044
    Cell("FNAME", string("m")),  \* 0045
    Cell("FNAME", string("k")),  \* 0046
    Cell("SET", nil),  \* 0047
    Cell("LIMIT", integer(0)),  \* 0048
    Cell("MARK", nil),  \* 0049
    Cell("MARK", nil),  \* 0050
    Cell("FNAME", string("m")),  \* 0051
    Cell("LIMIT", integer(1)),  \* 0052
    Cell("LOOP", integer(63)),  \* 0053
    Cell("FOR", vector(2)),  \* 0054
    Cell("MARK", nil),  \* 0055
    Cell("MARK", nil),  \* 0056
    Cell("FNAME", string("k")),  \* 0057
    Cell("FNAME", string("v")),  \* 0058
    CellC("CFUNC", 1, string("print")),  \* 0059
    Cell("LIMIT", integer(-1)),  \* 0060
    Cell("LIMIT", integer(0)),  \* 0061
    Cell("JMP", integer(54)),  \* 0062
    Cell("UNLOOP", nil),  \* 0063
    Cell("LIMIT", integer(0)),  \* 0064
    Cell("LIT", string("a")),  \* 0065
    Cell("ASSIGNP", string("s")),  \* 0066
    Cell("UPDATE", string("s")),  \* 0067
    Cell("ADD_LIT", integer(1)),  \* 0068
    Cell("STOP", nil)   \* 0069
    >>
Vecs_pk == <<<<string("k"), string("v")>>, <<string("k"), string("v")>>>>

(* program pl:
     print(1 < 2, 2 < 1, "a" < "b")
     print(1 < "a", "a" < 1)
     print(nil < 1, 1 < nil)
*)
Code_pl ==
    <<
    Cell("MARK", nil),  \* 0000
    Cell("MARK", nil),  \* 0001
    Cell("LIT", integer(1)),  \* 0002
    Cell("LIT", integer(2)),  \* 0003
    Cell("LT", nil),  \* 0004
    Cell("LIT", integer(2)),  \* 0005
    Cell("LIT", integer(1)),  \* 0006
    Cell("LT", nil),  \* 0007
    Cell("LIT", string("a")),  \* 0008
    Cell("LIT", string("b")),  \* 0009
    Cell("LT", nil),  \* 0010
    CellC("CFUNC", 0, string("print")),  \* 0011
    Cell("LIMIT", integer(-1)),  \* 0012
    Cell("LIMIT", integer(0)),  \* 0013
    Cell("MARK", nil),  \* 0014
    Cell("MARK", nil),  \* 0015
    Cell("LIT", integer(1)),  \* 0016
    Cell("LIT", string("a")),  \* 0017
    Cell("LT", nil),  \* 0018
    Cell("LIT", string("a")),  \* 0019
    Cell("LIT", integer(1)),  \* 0020
    Cell("LT", nil),  \* 0021
    CellC("CFUNC", 1, string("print")),  \* 0022
    Cell("LIMIT", integer(-1)),  \* 0023
    Cell("LIMIT", integer(0)),  \* 0024
    Cell("MARK", nil),  \* 0025
    Cell("MARK", nil),  \* 0026
    Cell("NIL", nil),  \* 0027
    Cell("LIT", integer(1)),  \* 0028
    Cell("LT", nil),  \* 0029
    Cell("LIT", integer(1)),  \* 0030
    Cell("NIL", nil),  \* 0031
    Cell("LT", nil),  \* 0032
    CellC("CFUNC", 2, string("print")),  \* 0033
    Cell("LIMIT", integer(-1)),  \* 0034
    Cell("LIMIT", integer(0)),  \* 0035
    Cell("STOP", nil)   \* 0036
    >>
Vecs_pl == <<>>

(* program pm:
     v = [5, 6, 7]
     for x in v if x == 6 break end print(x) end
     for i,x in v print(i, x) end
     m = { a = 1, b = 2 }
     for k,w in m print(k, w) end
     for i in 3 if i == 1 break end end
     for i in 0 print(i) end
     function g(n) return if n < 2 n else nil end end
     for y in g print(y) end
     for y in g break end
*)
Code_pm ==
    <<
    Cell("MARK", nil),  \* 0000
    Cell("VECTOR", nil),  \* 0001
    Cell("MARK", nil),  \* 0002
    Cell("LIT", integer(5)),  \* 0003
    Cell("VPUSH", nil),  \* 0004
    Cell("LIT", integer(6)),  \* 0005
    Cell("VPUSH", nil),  \* 0006
    Cell("LIT", integer(7)),  \* 0007
    Cell("VPUSH", nil),  \* 0008
    Cell("LIMIT", integer(0)),  \* 0009
    Cell("SHIFT", nil),  \* 0010
    Cell("ASSIGNL", string("v")),  \* 0011
    Cell("LIMIT", integer(0)),  \* 0012
    Cell("MARK", nil),  \* 0013
    Cell("MARK", nil),  \* 0014
    Cell("FNAME", string("v")),  \* 0015
    Cell("LIMIT", integer(1)),  \* 0016
    Cell("LOOP", integer(34)),  \* 0017
    Cell("FOR", vector(1)),  \* 0018
    Cell("MARK", nil),  \* 0019
    Cell("FNAME", string("x")),  \* 0020
    Cell("LIT", integer(6)),  \* 0021
    Cell("EQ", nil),  \* 0022
    Cell("JFALSE", integer(26)),  \* 0023
    Cell("DROP", nil),  \* 0024
    Cell("BREAK", nil),  \* 0025
    Cell("LIMIT", integer(0)),  \* 0026
    Cell("MARK", nil),  \* 0027
    Cell("MARK", nil),  \* 0028
    Cell("FNAME", string("x")),  \* 0029
    CellC("CFUNC", 0, string("print")),  \* 0030
    Cell("LIMIT", integer(-1)),  \* 0031
    Cell("LIMIT", integer(0)),  \* 0032
    Cell("JMP", integer(18)),  \* 0033
    Cell("UNLOOP", nil),  \* 0034
    Cell("LIMIT", integer(0)),  \* 0035
    Cell("MARK", nil),  \* 0036
    Cell("MARK", nil),  \* 0037
    Cell("FNAME", string("v")),  \* 0038
    Cell("LIMIT", integer(1)),  \* 0039
    Cell("LOOP", integer(50)),  \* 0040
    Cell("FOR", vector(2)),  \* 0041
    Cell("MARK", nil),  \* 0042
    Cell("MARK", nil),  \* 0043
    Cell("FNAME", string("i")),  \* 0044
    Cell("FNAME", string("x")),  \* 0045
    CellC("CFUNC", 1, string("print")),  \* 0046
    Cell("LIMIT", integer(-1)),  \* 0047
    Cell("LIMIT", integer(0)),  \* 0048
    Cell("JMP", integer(41)),  \* 0049
    Cell("UNLOOP", nil),  \* 0050
    Cell("LIMIT", integer(0)),  \* 0051
    Cell("MARK", nil),  \* 0052
    Cell("MARK", nil),  \* 0053
    Cell("MAP", nil),  \* 0054
    Cell("LIT", integer(1)),  \* 0055
    Cell("ASSIGNP", string("a")),  \* 0056
    Cell("LIT", integer(2)),  \* 0057
    Cell("ASSIGNP", string("b")),  \* 0058
    Cell("UNMAP", nil),  \* 0059
    Cell("LIMIT", integer(1)),  \* 0060
    Cell("ASSIGNL", string("m")),  \* 0061
    Cell("LIMIT", integer(0)),  \* 0062
    Cell("MARK", nil),  \* 0063
    Cell("MARK", nil),  \* 0064
    Cell("FNAME", string("m")),  \* 0065
    Cell("LIMIT", integer(1)),  \* 0066
    Cell("LOOP", integer(77)),  \* 0067
    Cell("FOR", vector(3)),  \* 0068
    Cell("MARK", nil),  \* 0069
    Cell("MARK", nil),  \* 0070
    Cell("FNAME", string("k")),  \* 0071
    Cell("FNAME", string("w")),  \* 0072
    CellC("CFUNC", 2, string("print")),  \* 0073
    Cell("LIMIT", integer(-1)),  \* 0074
    Cell("LIMIT", integer(0)),  \* 0075
    Cell("JMP", integer(68)),  \* 0076
    Cell("UNLOOP", nil),  \* 0077
    Cell("LIMIT", integer(0)),  \* 0078
    Cell("MARK", nil),  \* 0079
    Cell("LIT", integer(3)),  \* 0080
    Cell("LOOP", integer(92)),  \* 0081
    Cell("FOR", vector(4)),  \* 0082
    Cell("MARK", nil),  \* 0083
    Cell("FNAME", string("i")),  \* 0084
    Cell("LIT", integer(1)),  \* 0085
    Cell("EQ", nil),  \* 0086
    Cell("JFALSE", integer(90)),  \* 0087
    Cell("DROP", nil),  \* 0088
    Cell("BREAK", nil),  \* 0089
    Cell("LIMIT", integer(0)),  \* 0090
    Cell("JMP", integer(82)),  \* 0091
    Cell("UNLOOP", nil),  \* 0092
    Cell("LIMIT", integer(0)),  \* 0093
    Cell("MARK", nil),  \* 0094
    Cell("LIT", integer(0)),  \* 0095
    Cell("LOOP", integer(105)),  \* 0096
    Cell("FOR", vector(5)),  \* 0097
    Cell("MARK", nil),  \* 0098
    Cell("MARK", nil),  \* 0099
    Cell("FNAME", string("i")),  \* 0100
    CellC("CFUNC", 3, string("print")),  \* 0101
    Cell("LIMIT", integer(-1)),  \* 0102
    Cell("LIMIT", integer(0)),  \* 0103
    Cell("JMP", integer(97)),  \* 0104
    Cell("UNLOOP", nil),  \* 0105
    Cell("LIMIT", integer(0)),  \* 0106
    Cell("MARK", nil),  \* 0107
    Cell("LIT", subroutine(111)),  \* 0108
    Cell("ASSIGNL", string("g")),  \* 0109
    Cell("JMP", integer(128)),  \* 0110
    Cell("PID", integer(1)),  \* 0111
    Cell("ASSIGNL", string("n")),  \* 0112
    Cell("CLEAN", nil),  \* 0113
    Cell("FNAME", string("n")),  \* 0114
    Cell("LIT", integer(2)),  \* 0115
    Cell("LT", nil),  \* 0116
    Cell("JFALSE", integer(123)),  \* 0117
    Cell("DROP", nil),  \* 0118
    Cell("MARK", nil),  \* 0119
    Cell("FNAME", string("n")),  \* 0120
    Cell("LIMIT", integer(1)),  \* 0121
    Cell("JMP", integer(127)),  \* 0122
    Cell("DROP", nil),  \* 0123
    Cell("MARK", nil),  \* 0124
    Cell("NIL", nil),  \* 0125
    Cell("LIMIT", integer(1)),  \* 0126
    Cell("RETURN", nil),  \* 0127
    Cell("LIMIT", integer(0)),  \* 0128
    Cell("MARK", nil),  \* 0129
    Cell("MARK", nil),  \* 0130
    Cell("FNAME", string("g")),  \* 0131
    Cell("LIMIT", integer(1)),  \* 0132
    Cell("LOOP", integer(142)),  \* 0133
    Cell("FOR", vector(6)),  \* 0134
    Cell("MARK", nil),  \* 0135
    Cell("MARK", nil),  \* 0136
    Cell("FNAME", string("y")),  \* 0137
    CellC("CFUNC", 4, string("print")),  \* 0138
    Cell("LIMIT", integer(-1)),  \* 0139
    Cell("LIMIT", integer(0)),  \* 0140
    Cell("JMP", integer(134)),  \* 0141
    Cell("UNLOOP", nil),  \* 0142
    Cell("LIMIT", integer(0)),  \* 0143
    Cell("MARK", nil),  \* 0144
    Cell("MARK", nil),  \* 0145
    Cell("FNAME", string("g")),  \* 0146
    Cell("LIMIT", integer(1)),  \* 0147
    Cell("LOOP", integer(152)),  \* 0148
    Cell("FOR", vector(7)),  \* 0149
    Cell("BREAK", nil),  \* 0150
    Cell("JMP", integer(149)),  \* 0151
    Cell("UNLOOP", nil),  \* 0152
    Cell("LIMIT", integer(0)),  \* 0153
    Cell("STOP", nil)   \* 0154
    >>
Vecs_pm == <<<<string("x")>>, <<string("i"), string("x")>>, <<string("k"), string("w")>>, <<string("i")>>, <<string("i")>>, <<string("y")>>, <<string("y")>>>>

(* program pn:
     function iter()
       for i in 10
         lib.yield(i)
       end
     end
     cor = lib.coroutine(iter)
     for i in cor
       print(i)
     end
*)
Code_pn ==
    <<
    Cell("MARK", nil),  \* 0000
    Cell("LIT", subroutine(4)),  \* 0001
    Cell("ASSIGNL", string("iter")),  \* 0002
    Cell("JMP", integer(25)),  \* 0003
    Cell("PID", integer(1)),  \* 0004
    Cell("CLEAN", nil),  \* 0005
    Cell("MARK", nil),  \* 0006
    Cell("LIT", integer(10)),  \* 0007
    Cell("LOOP", integer(21)),  \* 0008
    Cell("FOR", vector(1)),  \* 0009
    Cell("MARK", nil),  \* 0010
    Cell("FNAME", string("lib")),  \* 0011
    Cell("GNAME", string("yield")),  \* 0012
    Cell("SHUNT", nil),  \* 0013
    Cell("MARK", nil),  \* 0014
    Cell("FNAME", string("i")),  \* 0015
    Cell("SHIFT", nil),  \* 0016
    Cell("CALL", nil),  \* 0017
    Cell("LIMIT", integer(1)),  \* 0018
    Cell("LIMIT", integer(0)),  \* 0019
    Cell("JMP", integer(9)),  \* 0020
    Cell("UNLOOP", nil),  \* 0021
    Cell("LIMIT", integer(0)),  \* 0022
    Cell("CLEAN", nil),  \* 0023
    Cell("RETURN", nil),  \* 0024
    Cell("LIMIT", integer(0)),  \* 0025
    Cell("MARK", nil),  \* 0026
    Cell("FNAME", string("lib")),  \* 0027
    Cell("GNAME", string("coroutine")),  \* 0028
    Cell("SHUNT", nil),  \* 0029
    Cell("MARK", nil),  \* 0030
    Cell("FNAME", string("iter")),  \* 0031
    Cell("SHIFT", nil),  \* 0032
    Cell("CALL", nil),  \* 0033
    Cell("LIMIT", integer(1)),  \* 0034
    Cell("ASSIGNL", string("cor")),  \* 0035
    Cell("LIMIT", integer(0)),  \* 0036
    Cell("MARK", nil),  \* 0037
    Cell("MARK", nil),  \* 0038
    Cell("FNAME", string("cor")),  \* 0039
    Cell("LIMIT", integer(1)),  \* 0040
    Cell("LOOP", integer(50)),  \* 0041
    Cell("FOR", vector(2)),  \* 0042
    Cell("MARK", nil),  \* 0043
    Cell("MARK", nil),  \* 0044
    Cell("FNAME", string("i")),  \* 0045
    CellC("CFUNC", 0, string("print")),  \* 0046
    Cell("LIMIT", integer(-1)),  \* 0047
    Cell("LIMIT", integer(0)),  \* 0048
    Cell("JMP", integer(42)),  \* 0049
    Cell("UNLOOP", nil),  \* 0050
    Cell("LIMIT", integer(0)),  \* 0051
    Cell("STOP", nil)   \* 0052
    >>
Vecs_pn == <<<<string("i")>>, <<string("i")>>>>

(* program po:
     for i in -1 print(i) end
*)
Code_po ==
    <<
    Cell("MARK", nil),  \* 0000
    Cell("LIT", integer(-1)),  \* 0001
    Cell("LOOP", integer(11)),  \* 0002
    Cell("FOR", vector(1)),  \* 0003
    Cell("MARK", nil),  \* 0004
    Cell("MARK", nil),  \* 0005
    Cell("FNAME", string("i")),  \* 0006
    CellC("CFUNC", 0, string("print")),  \* 0007
    Cell("LIMIT", integer(-1)),  \* 0008
    Cell("LIMIT", integer(0)),  \* 0009
    Cell("JMP", integer(3)),  \* 0010
    Cell("UNLOOP", nil),  \* 0011
    Cell("LIMIT", integer(0)),  \* 0012
    Cell("STOP", nil)   \* 0013
    >>
Vecs_po == <<<<string("i")>>>>

(* program pq:
     function inner() lib.yield(7) end
     ci = lib.coroutine(inner)
     function iter()
       lib.yield(1)
       lib.resume(ci)
       lib.yield(2)
     end
     cor = lib.coroutine(iter)
     for x in cor print(x) end
*)
Code_pq ==
    <<
    Cell("MARK", nil),  \* 0000
    Cell("LIT", subroutine(4)),  \* 0001
    Cell("ASSIGNL", string("inner")),  \* 0002
    Cell("JMP", integer(18)),  \* 0003
    Cell("PID", integer(1)),  \* 0004
    Cell("CLEAN", nil),  \* 0005
    Cell("MARK", nil),  \* 0006
    Cell("FNAME", string("lib")),  \* 0007
    Cell("GNAME", string("yield")),  \* 0008
    Cell("SHUNT", nil),  \* 0009
    Cell("MARK", nil),  \* 0010
    Cell("LIT", integer(7)),  \* 0011
    Cell("SHIFT", nil),  \* 0012
    Cell("CALL", nil),  \* 0013
    Cell("LIMIT", integer(1)),  \* 0014
    Cell("LIMIT", integer(0)),  \* 0015
    Cell("CLEAN", nil),  \* 0016
    Cell("RETURN", nil),  \* 0017
    Cell("LIMIT", integer(0)),  \* 0018
    Cell("MARK", nil),  \* 0019
    Cell("FNAME", string("lib")),  \* 0020
    Cell("GNAME", string("coroutine")),  \* 0021
    Cell("SHUNT", nil),  \* 0022
    Cell("MARK", nil),  \* 0023
    Cell("FNAME", string("inner")),  \* 0024
    Cell("SHIFT", nil),  \* 0025
    Cell("CALL", nil),  \* 0026
    Cell("LIMIT", integer(1)),  \* 0027
    Cell("ASSIGNL", string("ci")),  \* 0028
    Cell("LIMIT", integer(0)),  \* 0029
    Cell("MARK", nil),  \* 0030
    Cell("LIT", subroutine(34)),  \* 0031
    Cell("ASSIGNL", string("iter")),  \* 0032
    Cell("JMP", integer(68)),  \* 0033
    Cell("PID", integer(2)),  \* 0034
    Cell("CLEAN", nil),  \* 0035
    Cell("MARK", nil),  \* 0036
    Cell("FNAME", string("lib")),  \* 0037
    Cell("GNAME", string("yield")),  \* 0038
    Cell("SHUNT", nil),  \* 0039
    Cell("MARK", nil),  \* 0040
    Cell("LIT", integer(1)),  \* 0041
    Cell("SHIFT", nil),  \* 0042
    Cell("CALL", nil),  \* 0043
    Cell("LIMIT", integer(1)),  \* 0044
    Cell("LIMIT", integer(0)),  \* 0045
    Cell("MARK", nil),  \* 0046
    Cell("FNAME", string("lib")),  \* 0047
    Cell("GNAME", string("resume")),  \* 0048
    Cell("SHUNT", nil),  \* 0049
    Cell("MARK", nil),  \* 0050
    Cell("FNAME", string("ci")),  \* 0051
    Cell("SHIFT", nil),  \* 0052
    Cell("CALL", nil),  \* 0053
    Cell("LIMIT", integer(1)),  \* 0054
    Cell("LIMIT", integer(0)),  \* 0055
    Cell("MARK", nil),  \* 0056
    Cell("FNAME", string("lib")),  \* 0057
    Cell("GNAME", string("yield")),  \* 0058
    Cell("SHUNT", nil),  \* 0059
    Cell("MARK", nil),  \* 0060
    Cell("LIT", integer(2)),  \* 0061
    Cell("SHIFT", nil),  \* 0062
    Cell("CALL", nil),  \* 0063
    Cell("LIMIT", integer(1)),  \* 0064
    Cell("LIMIT", integer(0)),  \* 0065
    Cell("CLEAN", nil),  \* 0066
    Cell("RETURN", nil),  \* 0067
    Cell("LIMIT", integer(0)),  \* 0068
    Cell("MARK", nil),  \* 0069
    Cell("FNAME", string("lib")),  \* 0070
    Cell("GNAME", string("coroutine")),  \* 0071
    Cell("SHUNT", nil),  \* 0072
    Cell("MARK", nil),  \* 0073
    Cell("FNAME", string("iter")),  \* 0074
    Cell("SHIFT", nil),  \* 0075
    Cell("CALL", nil),  \* 0076
    Cell("LIMIT", integer(1)),  \* 0077
    Cell("ASSIGNL", string("cor")),  \* 0078
    Cell("LIMIT", integer(0)),  \* 0079
    Cell("MARK", nil),  \* 0080
    Cell("MARK", nil),  \* 0081
    Cell("FNAME", string("cor")),  \* 0082
    Cell("LIMIT", integer(1)),  \* 0083
    Cell("LOOP", integer(93)),  \* 0084
    Cell("FOR", vector(1)),  \* 0085
    Cell("MARK", nil),  \* 0086
    Cell("MARK", nil),  \* 0087
    Cell("FNAME", string("x")),  \* 0088
    CellC("CFUNC", 0, string("print")),  \* 0089
    Cell("LIMIT", integer(-1)),  \* 0090
    Cell("LIMIT", integer(0)),  \* 0091
    Cell("JMP", integer(85)),  \* 0092
    Cell("UNLOOP", nil),  \* 0093
    Cell("LIMIT", integer(0)),  \* 0094
    Cell("STOP", nil)   \* 0095
    >>
Vecs_pq == <<<<string("x")>>>>

(* program pr:
     for y in hcollect
       if y == 2 break end
       print(y)
     end
     print(y)
*)
Code_pr ==
    <<
    Cell("MARK", nil),  \* 0000
    Cell("MARK", nil),  \* 0001
    Cell("FNAME", string("hcollect")),  \* 0002
    Cell("LIMIT", integer(1)),  \* 0003
    Cell("LOOP", integer(21)),  \* 0004
    Cell("FOR", vector(1)),  \* 0005
    Cell("MARK", nil),  \* 0006
    Cell("FNAME", string("y")),  \* 0007
    Cell("LIT", integer(2)),  \* 0008
    Cell("EQ", nil),  \* 0009
    Cell("JFALSE", integer(13)),  \* 0010
    Cell("DROP", nil),  \* 0011
    Cell("BREAK", nil),  \* 0012
    Cell("LIMIT", integer(0)),  \* 0013
    Cell("MARK", nil),  \* 0014
    Cell("MARK", nil),  \* 0015
    Cell("FNAME", string("y")),  \* 0016
    CellC("CFUNC", 0, string("print")),  \* 0017
    Cell("LIMIT", integer(-1)),  \* 0018
    Cell("LIMIT", integer(0)),  \* 0019
    Cell("JMP", integer(5)),  \* 0020
    Cell("UNLOOP", nil),  \* 0021
    Cell("LIMIT", integer(0)),  \* 0022
    Cell("MARK", nil),  \* 0023
    Cell("MARK", nil),  \* 0024
    Cell("FNAME", string("y")),  \* 0025
    CellC("CFUNC", 1, string("print")),  \* 0026
    Cell("LIMIT", integer(-1)),  \* 0027
    Cell("LIMIT", integer(0)),  \* 0028
    Cell("STOP", nil)   \* 0029
    >>
Vecs_pr == <<<<string("y")>>>>

(* program ps:
     function g(n)
       lib.yield(n)
       return nil
     end
     function body()
       for x in g print(x) end
     end
     c = lib.coroutine(body)
     lib.resume(c)
     print(7)
*)
Code_ps ==
    <<
    Cell("MARK", nil),  \* 0000
    Cell("LIT", subroutine(4)),  \* 0001
    Cell("ASSIGNL", string("g")),  \* 0002
    Cell("JMP", integer(20)),  \* 0003
    Cell("PID", integer(1)),  \* 0004
    Cell("ASSIGNL", string("n")),  \* 0005
    Cell("CLEAN", nil),  \* 0006
    Cell("MARK", nil),  \* 0007
    Cell("FNAME", string("lib")),  \* 0008
    Cell("GNAME", string("yield")),  \* 0009
    Cell("SHUNT", nil),  \* 0010
    Cell("MARK", nil),  \* 0011
    Cell("FNAME", string("n")),  \* 0012
    Cell("SHIFT", nil),  \* 0013
    Cell("CALL", nil),  \* 0014
    Cell("LIMIT", integer(1)),  \* 0015
    Cell("LIMIT", integer(0)),  \* 0016
    Cell("CLEAN", nil),  \* 0017
    Cell("NIL", nil),  \* 0018
    Cell("RETURN", nil),  \* 0019
    Cell("LIMIT", integer(0)),  \* 0020
    Cell("MARK", nil),  \* 0021
    Cell("LIT", subroutine(25)),  \* 0022
    Cell("ASSIGNL", string("body")),  \* 0023
    Cell("JMP", integer(44)),  \* 0024
    Cell("PID", integer(2)),  \* 0025
    Cell("CLEAN", nil),  \* 0026
    Cell("MARK", nil),  \* 0027
    Cell("MARK", nil),  \* 0028
    Cell("FNAME", string("g")),  \* 0029
    Cell("LIMIT", integer(1)),  \* 0030
    Cell("LOOP", integer(40)),  \* 0031
    Cell("FOR", vector(1)),  \* 0032
    Cell("MARK", nil),  \* 0033
    Cell("MARK", nil),  \* 0034
    Cell("FNAME", string("x")),  \* 0035
    CellC("CFUNC", 0, string("print")),  \* 0036
    Cell("LIMIT", integer(-1)),  \* 0037
    Cell("LIMIT", integer(0)),  \* 0038
    Cell("JMP", integer(32)),  \* 0039
    Cell("UNLOOP", nil),  \* 0040
    Cell("LIMIT", integer(0)),  \* 0041
    Cell("CLEAN", nil),  \* 0042
    Cell("RETURN", nil),  \* 0043
    Cell("LIMIT", integer(0)),  \* 0044
    Cell("MARK", nil),  \* 0045
    Cell("FNAME", string("lib")),  \* 0046
    Cell("GNAME", string("coroutine")),  \* 0047
    Cell("SHUNT", nil),  \* 0048
    Cell("MARK", nil),  \* 0049
    Cell("FNAME", string("body")),  \* 0050
    Cell("SHIFT", nil),  \* 0051
    Cell("CALL", nil),  \* 0052
    Cell("LIMIT", integer(1)),  \* 0053
    Cell("ASSIGNL", string("c")),  \* 0054
    Cell("LIMIT", integer(0)),  \* 0055
    Cell("MARK", nil),  \* 0056
    Cell("FNAME", string("lib")),  \* 0057
    Cell("GNAME", string("resume")),  \* 0058
    Cell("SHUNT", nil),  \* 0059
    Cell("MARK", nil),  \* 0060
    Cell("FNAME", string("c")),  \* 0061
    Cell("SHIFT", nil),  \* 0062
    Cell("CALL", nil),  \* 0063
    Cell("LIMIT", integer(1)),  \* 0064
    Cell("LIMIT", integer(0)),  \* 0065
    Cell("MARK", nil),  \* 0066
    Cell("MARK", nil),  \* 0067
    Cell("LIT", integer(7)),  \* 0068
    CellC("CFUNC", 1, string("print")),  \* 0069
    Cell("LIMIT", integer(-1)),  \* 0070
    Cell("LIMIT", integer(0)),  \* 0071
    Cell("STOP", nil)   \* 0072
    >>
Vecs_ps == <<<<string("x")>>>>

(* program pu:
     for i in 3
       if i == 1 continue end
       print(i)
     end
     print(9)
*)
Code_pu ==
    <<
    Cell("MARK", nil),  \* 0000
    Cell("LIT", integer(3)),  \* 0001
    Cell("LOOP", integer(19)),  \* 0002
    Cell("FOR", vector(1)),  \* 0003
    Cell("MARK", nil),  \* 0004
    Cell("FNAME", string("i")),  \* 0005
    Cell("LIT", integer(1)),  \* 0006
    Cell("EQ", nil),  \* 0007
    Cell("JFALSE", integer(11)),  \* 0008
    Cell("DROP", nil),  \* 0009
    Cell("CONTINUE", nil),  \* 0010
    Cell("LIMIT", integer(0)),  \* 0011
    Cell("MARK", nil),  \* 0012
    Cell("MARK", nil),  \* 0013
    Cell("FNAME", string("i")),  \* 0014
    CellC("CFUNC", 0, string("print")),  \* 0015
    Cell("LIMIT", integer(-1)),  \* 0016
    Cell("LIMIT", integer(0)),  \* 0017
    Cell("JMP", integer(3)),  \* 0018
    Cell("UNLOOP", nil),  \* 0019
    Cell("LIMIT", integer(0)),  \* 0020
    Cell("MARK", nil),  \* 0021
    Cell("MARK", nil),  \* 0022
    Cell("LIT", integer(9)),  \* 0023
    CellC("CFUNC", 1, string("print")),  \* 0024
    Cell("LIMIT", integer(-1)),  \* 0025
    Cell("LIMIT", integer(0)),  \* 0026
    Cell("STOP", nil)   \* 0027
    >>
Vecs_pu == <<<<string("i")>>>>

(* program pv:
     i = 0
     while i < 3
       i = i + 1
       if i == 2 continue end
       print(i)
     end
*)
Code_pv ==
    <<
    Cell("LIT", integer(0)),  \* 0000
    Cell("ASSIGNP", string("i")),  \* 0001
    Cell("MARK", nil),  \* 0002
    Cell("LOOP", integer(26)),  \* 0003
    Cell("FNAME", string("i")),  \* 0004
    Cell("LIT", integer(3)),  \* 0005
    Cell("LT", nil),  \* 0006
    Cell("JFALSE", integer(26)),  \* 0007
    Cell("DROP", nil),  \* 0008
    Cell("UPDATE", string("i")),  \* 0009
    Cell("ADD_LIT", integer(1)),  \* 0010
    Cell("MARK", nil),  \* 0011
    Cell("FNAME", string("i")),  \* 0012
    Cell("LIT", integer(2)),  \* 0013
    Cell("EQ", nil),  \* 0014
    Cell("JFALSE", integer(18)),  \* 0015
    Cell("DROP", nil),  \* 0016
    Cell("CONTINUE", nil),  \* 0017
    Cell("LIMIT", integer(0)),  \* 0018
    Cell("MARK", nil),  \* 0019
    Cell("MARK", nil),  \* 0020
    Cell("FNAME", string("i")),  \* 0021
    CellC("CFUNC", 0, string("print")),  \* 0022
    Cell("LIMIT", integer(-1)),  \* 0023
    Cell("LIMIT", integer(0)),  \* 0024
    Cell("JMP", integer(4)),  \* 0025
    Cell("UNLOOP", nil),  \* 0026
    Cell("LIMIT", integer(0)),  \* 0027
    Cell("STOP", nil)   \* 0028
    >>
Vecs_pv == <<>>

(* program pw:
     function g() print(1) return true end
     function f() print(0) return end
     print(g() or f())
     print(f() or g())
     print(f() && g())
     print(g() && f())
     x = nil or 5
     y = 0 && x
     print(x, y)
*)
Code_pw ==
    <<
    Cell("MARK", nil),  \* 0000
    Cell("LIT", subroutine(4)),  \* 0001
    Cell("ASSIGNL", string("g")),  \* 0002
    Cell("JMP", integer(15)),  \* 0003
    Cell("PID", integer(1)),  \* 0004
    Cell("CLEAN", nil),  \* 0005
    Cell("MARK", nil),  \* 0006
    Cell("MARK", nil),  \* 0007
    Cell("LIT", integer(1)),  \* 0008
    CellC("CFUNC", 0, string("print")),  \* 0009
    Cell("LIMIT", integer(-1)),  \* 0010
    Cell("LIMIT", integer(0)),  \* 0011
    Cell("CLEAN", nil),  \* 0012
    Cell("TRUE", nil),  \* 0013
    Cell("RETURN", nil),  \* 0014
    Cell("LIMIT", integer(0)),  \* 0015
    Cell("MARK", nil),  \* 0016
    Cell("LIT", subroutine(20)),  \* 0017
    Cell("ASSIGNL", string("f")),  \* 0018
    Cell("JMP", integer(30)),  \* 0019
    Cell("PID", integer(2)),  \* 0020
    Cell("CLEAN", nil),  \* 0021
    Cell("MARK", nil),  \* 0022
    Cell("MARK", nil),  \* 0023
    Cell("LIT", integer(0)),  \* 0024
    CellC("CFUNC", 1, string("print")),  \* 0025
    Cell("LIMIT", integer(-1)),  \* 0026
    Cell("LIMIT", integer(0)),  \* 0027
    Cell("CLEAN", nil),  \* 0028
    Cell("RETURN", nil),  \* 0029
    Cell("LIMIT", integer(0)),  \* 0030
    Cell("MARK", nil),  \* 0031
    Cell("MARK", nil),  \* 0032
    Cell("MARK", nil),  \* 0033
    CellC("CFUNC", 2, string("g")),  \* 0034
    Cell("LIMIT", integer(1)),  \* 0035
    Cell("JTRUE", integer(41)),  \* 0036
    Cell("DROP", nil),  \* 0037
    Cell("MARK", nil),  \* 0038
    CellC("CFUNC", 3, string("f")),  \* 0039
    Cell("LIMIT", integer(1)),  \* 0040
    CellC("CFUNC", 4, string("print")),  \* 0041
    Cell("LIMIT", integer(-1)),  \* 0042
    Cell("LIMIT", integer(0)),  \* 0043
    Cell("MARK", nil),  \* 0044
    Cell("MARK", nil),  \* 0045
    Cell("MARK", nil),  \* 0046
    CellC("CFUNC", 5, string("f")),  \* 0047
    Cell("LIMIT", integer(1)),  \* 0048
    Cell("JTRUE", integer(54)),  \* 0049
    Cell("DROP", nil),  \* 0050
    Cell("MARK", nil),  \* 0051
    CellC("CFUNC", 6, string("g")),  \* 0052
    Cell("LIMIT", integer(1)),  \* 0053
    CellC("CFUNC", 7, string("print")),  \* 0054
    Cell("LIMIT", integer(-1)),  \* 0055
    Cell("LIMIT", integer(0)),  \* 0056
    Cell("MARK", nil),  \* 0057
    Cell("MARK", nil),  \* 0058
    Cell("MARK", nil),  \* 0059
    CellC("CFUNC", 8, string("f")),  \* 0060
    Cell("LIMIT", integer(1)),  \* 0061
    Cell("JFALSE", integer(67)),  \* 0062
    Cell("DROP", nil),  \* 0063
    Cell("MARK", nil),  \* 0064
    CellC("CFUNC", 9, string("g")),  \* 0065
    Cell("LIMIT", integer(1)),  \* 0066
    CellC("CFUNC", 10, string("print")),  \* 0067
    Cell("LIMIT", integer(-1)),  \* 0068
    Cell("LIMIT", integer(0)),  \* 0069
    Cell("MARK", nil),  \* 0070
    Cell("MARK", nil),  \* 0071
    Cell("MARK", nil),  \* 0072
    CellC("CFUNC", 11, string("g")),  \* 0073
    Cell("LIMIT", integer(1)),  \* 0074
    Cell("JFALSE", integer(80)),  \* 0075
    Cell("DROP", nil),  \* 0076
    Cell("MARK", nil),  \* 0077
    CellC("CFUNC", 12, string("f")),  \* 0078
    Cell("LIMIT", integer(1)),  \* 0079
    CellC("CFUNC", 13, string("print")),  \* 0080
    Cell("LIMIT", integer(-1)),  \* 0081
    Cell("LIMIT", integer(0)),  \* 0082
    Cell("MARK", nil),  \* 0083
    Cell("NIL", nil),  \* 0084
    Cell("JTRUE", integer(88)),  \* 0085
    Cell("DROP", nil),  \* 0086
    Cell("LIT", integer(5)),  \* 0087
    Cell("ASSIGNL", string("x")),  \* 0088
    Cell("LIMIT", integer(0)),  \* 0089
    Cell("MARK", nil),  \* 0090
    Cell("LIT", integer(0)),  \* 0091
    Cell("JFALSE", integer(95)),  \* 0092
    Cell("DROP", nil),  \* 0093
    Cell("FNAME", string("x")),  \* 0094
    Cell("ASSIGNL", string("y")),  \* 0095
    Cell("LIMIT", integer(0)),  \* 0096
    Cell("MARK", nil),  \* 0097
    Cell("MARK", nil),  \* 0098
    Cell("FNAME", string("x")),  \* 0099
    Cell("FNAME", string("y")),  \* 0100
    CellC("CFUNC", 14, string("print")),  \* 0101
    Cell("LIMIT", integer(-1)),  \* 0102
    Cell("LIMIT", integer(0)),  \* 0103
    Cell("STOP", nil)   \* 0104
    >>
Vecs_pw == <<>>

(* program px:
     m = { "==" = function(x, y) print(7) return 5 end }
     a = [1,2]
     b = [1,3]
     c = [1,3]
     print(a == b, b == c)
     lib.setmeta(a, m)
     print(a == b, a == m)
     function f(s) if s == "==" return function(x, y) return end end return nil end
     lib.setmeta(b, f)
     print(b == c)
     function g(s) return nil end
     lib.setmeta(c, g)
     print(c == b, c == a)
     k = 1
     w = {}
     w["=="] = function(x, y) return true end
     w[k] = 1
     lib.setmeta(c, w)
     print(c == a)
*)
Code_px ==
    <<
    Cell("MARK", nil),  \* 0000
    Cell("MARK", nil),  \* 0001
    Cell("MAP", nil),  \* 0002
    Cell("MARK", nil),  \* 0003
    Cell("MARK", nil),  \* 0004
    Cell("LIT", subroutine(7)),  \* 0005
    Cell("JMP", integer(21)),  \* 0006
    Cell("PID", integer(1)),  \* 0007
    Cell("ASSIGNL", string("x")),  \* 0008
    Cell("LIT", string("y")),  \* 0009
    Cell("ASSIGN", integer(1)),  \* 0010
    Cell("CLEAN", nil),  \* 0011
    Cell("MARK", nil),  \* 0012
    Cell("MARK", nil),  \* 0013
    Cell("LIT", integer(7)),  \* 0014
    CellC("CFUNC", 0, string("print")),  \* 0015
    Cell("LIMIT", integer(-1)),  \* 0016
    Cell("LIMIT", integer(0)),  \* 0017
    Cell("CLEAN", nil),  \* 0018
    Cell("LIT", integer(5)),  \* 0019
    Cell("RETURN", nil),  \* 0020
    Cell("LIMIT", integer(1)),  \* 0021
    Cell("ASSIGNL", string("==")),  \* 0022
    Cell("LIMIT", integer(0)),  \* 0023
    Cell("UNMAP", nil),  \* 0024
    Cell("LIMIT", integer(1)),  \* 0025
    Cell("ASSIGNL", string("m")),  \* 0026
    Cell("LIMIT", integer(0)),  \* 0027
    Cell("MARK", nil),  \* 0028
    Cell("VECTOR", nil),  \* 0029
    Cell("MARK", nil),  \* 0030
    Cell("LIT", integer(1)),  \* 0031
    Cell("VPUSH", nil),  \* 0032
    Cell("LIT", integer(2)),  \* 0033
    Cell("VPUSH", nil),  \* 0034
    Cell("LIMIT", integer(0)),  \* 0035
    Cell("SHIFT", nil),  \* 0036
    Cell("ASSIGNL", string("a")),  \* 0037
    Cell("LIMIT", integer(0)),  \* 0038
    Cell("MARK", nil),  \* 0039
    Cell("VECTOR", nil),  \* 0040
    Cell("MARK", nil),  \* 0041
    Cell("LIT", integer(1)),  \* 0042
    Cell("VPUSH", nil),  \* 0043
    Cell("LIT", integer(3)),  \* 0044
    Cell("VPUSH", nil),  \* 0045
    Cell("LIMIT", integer(0)),  \* 0046
    Cell("SHIFT", nil),  \* 0047
    Cell("ASSIGNL", string("b")),  \* 0048
    Cell("LIMIT", integer(0)),  \* 0049
    Cell("MARK", nil),  \* 0050
    Cell("VECTOR", nil),  \* 0051
    Cell("MARK", nil),  \* 0052
    Cell("LIT", integer(1)),  \* 0053
    Cell("VPUSH", nil),  \* 0054
    Cell("LIT", integer(3)),  \* 0055
    Cell("VPUSH", nil),  \* 0056
    Cell("LIMIT", integer(0)),  \* 0057
    Cell("SHIFT", nil),  \* 0058
    Cell("ASSIGNL", string("c")),  \* 0059
    Cell("LIMIT", integer(0)),  \* 0060
    Cell("MARK", nil),  \* 0061
    Cell("MARK", nil),  \* 0062
    Cell("FNAME", string("a")),  \* 0063
    Cell("FNAME", string("b")),  \* 0064
    Cell("EQ", nil),  \* 0065
    Cell("FNAME", string("b")),  \* 0066
    Cell("FNAME", string("c")),  \* 0067
    Cell("EQ", nil),  \* 0068
    CellC("CFUNC", 1, string("print")),  \* 0069
    Cell("LIMIT", integer(-1)),  \* 0070
    Cell("LIMIT", integer(0)),  \* 0071
    Cell("MARK", nil),  \* 0072
    Cell("FNAME", string("lib")),  \* 0073
    Cell("GNAME", string("setmeta")),  \* 0074
    Cell("SHUNT", nil),  \* 0075
    Cell("MARK", nil),  \* 0076
    Cell("FNAME", string("a")),  \* 0077
    Cell("FNAME", string("m")),  \* 0078
    Cell("SHIFT", nil),  \* 0079
    Cell("CALL", nil),  \* 0080
    Cell("LIMIT", integer(1)),  \* 0081
    Cell("LIMIT", integer(0)),  \* 0082
    Cell("MARK", nil),  \* 0083
    Cell("MARK", nil),  \* 0084
    Cell("FNAME", string("a")),  \* 0085
    Cell("FNAME", string("b")),  \* 0086
    Cell("EQ", nil),  \* 0087
    Cell("FNAME", string("a")),  \* 0088
    Cell("FNAME", string("m")),  \* 0089
    Cell("EQ", nil),  \* 0090
    CellC("CFUNC", 2, string("print")),  \* 0091
    Cell("LIMIT", integer(-1)),  \* 0092
    Cell("LIMIT", integer(0)),  \* 0093
    Cell("MARK", nil),  \* 0094
    Cell("LIT", subroutine(98)),  \* 0095
    Cell("ASSIGNL", string("f")),  \* 0096
    Cell("JMP", integer(124)),  \* 0097
    Cell("PID", integer(2)),  \* 0098
    Cell("ASSIGNL", string("s")),  \* 0099
    Cell("CLEAN", nil),  \* 0100
    Cell("MARK", nil),  \* 0101
    Cell("FNAME", string("s")),  \* 0102
    Cell("LIT", string("==")),  \* 0103
    Cell("EQ", nil),  \* 0104
    Cell("JFALSE", integer(120)),  \* 0105
    Cell("DROP", nil),  \* 0106
    Cell("CLEAN", nil),  \* 0107
    Cell("MARK", nil),  \* 0108
    Cell("LIT", subroutine(111)),  \* 0109
    Cell("JMP", integer(118)),  \* 0110
    Cell("PID", integer(3)),  \* 0111
    Cell("PID", integer(2)),  \* 0112
    Cell("ASSIGNL", string("x")),  \* 0113
    Cell("LIT", string("y")),  \* 0114
    Cell("ASSIGN", integer(1)),  \* 0115
    Cell("CLEAN", nil),  \* 0116
    Cell("RETURN", nil),  \* 0117
    Cell("LIMIT", integer(1)),  \* 0118
    Cell("RETURN", nil),  \* 0119
    Cell("LIMIT", integer(0)),  \* 0120
    Cell("CLEAN", nil),  \* 0121
    Cell("NIL", nil),  \* 0122
    Cell("RETURN", nil),  \* 0123
    Cell("LIMIT", integer(0)),  \* 0124
    Cell("MARK", nil),  \* 0125
    Cell("FNAME", string("lib")),  \* 0126
    Cell("GNAME", string("setmeta")),  \* 0127
    Cell("SHUNT", nil),  \* 0128
    Cell("MARK", nil),  \* 0129
    Cell("FNAME", string("b")),  \* 0130
    Cell("FNAME", string("f")),  \* 0131
    Cell("SHIFT", nil),  \* 0132
    Cell("CALL", nil),  \* 0133
    Cell("LIMIT", integer(1)),  \* 0134
    Cell("LIMIT", integer(0)),  \* 0135
    Cell("MARK", nil),  \* 0136
    Cell("MARK", nil),  \* 0137
    Cell("FNAME", string("b")),  \* 0138
    Cell("FNAME", string("c")),  \* 0139
    Cell("EQ", nil),  \* 0140
    CellC("CFUNC", 3, string("print")),  \* 0141
    Cell("LIMIT", integer(-1)),  \* 0142
    Cell("LIMIT", integer(0)),  \* 0143
    Cell("MARK", nil),  \* 0144
    Cell("LIT", subroutine(148)),  \* 0145
    Cell("ASSIGNL", string("g")),  \* 0146
    Cell("JMP", integer(153)),  \* 0147
    Cell("PID", integer(4)),  \* 0148
    Cell("ASSIGNL", string("s")),  \* 0149
    Cell("CLEAN", nil),  \* 0150
    Cell("NIL", nil),  \* 0151
    Cell("RETURN", nil),  \* 0152
    Cell("LIMIT", integer(0)),  \* 0153
    Cell("MARK", nil),  \* 0154
    Cell("FNAME", string("lib")),  \* 0155
    Cell("GNAME", string("setmeta")),  \* 0156
    Cell("SHUNT", nil),  \* 0157
    Cell("MARK", nil),  \* 0158
    Cell("FNAME", string("c")),  \* 0159
    Cell("FNAME", string("g")),  \* 0160
    Cell("SHIFT", nil),  \* 0161
    Cell("CALL", nil),  \* 0162
    Cell("LIMIT", integer(1)),  \* 0163
    Cell("LIMIT", integer(0)),  \* 0164
    Cell("MARK", nil),  \* 0165
    Cell("MARK", nil),  \* 0166
    Cell("FNAME", string("c")),  \* 0167
    Cell("FNAME", string("b")),  \* 0168
    Cell("EQ", nil),  \* 0169
    Cell("FNAME", string("c")),  \* 0170
    Cell("FNAME", string("a")),  \* 0171
    Cell("EQ", nil),  \* 0172
    CellC("CFUNC", 4, string("print")),  \* 0173
    Cell("LIMIT", integer(-1)),  \* 0174
    Cell("LIMIT", integer(0)),  \* 0175
    Cell("LIT", integer(1)),  \* 0176
    Cell("ASSIGNP", string("k")),  \* 0177
    Cell("MARK", nil),  \* 0178
    Cell("MARK", nil),  \* 0179
    Cell("MAP", nil),  \* 0180
    Cell("UNMAP", nil),  \* 0181
    Cell("LIMIT", integer(1)),  \* 0182
    Cell("ASSIGNL", string("w")),  \* 0183
    Cell("LIMIT", integer(0)),  \* 0184
    Cell("MARK", nil),  \* 0185
    Cell("MARK", nil),  \* 0186
    Cell("LIT", subroutine(189)),  \* 0187
    Cell("JMP", integer(196)),  \* 0188
    Cell("PID", integer(5)),  \* 0189
    Cell("ASSIGNL", string("x")),  \* 0190
    Cell("LIT", string("y")),  \* 0191
    Cell("ASSIGN", integer(1)),  \* 0192
    Cell("CLEAN", nil),  \* 0193
    Cell("TRUE", nil),  \* 0194
    Cell("RETURN", nil),  \* 0195
    Cell("LIMIT", integer(1)),  \* 0196
    Cell("FNAME", string("w")),  \* 0197
    Cell("LIT", string("==")),  \* 0198
    Cell("SET", nil),  \* 0199
    Cell("LIMIT", integer(0)),  \* 0200
    Cell("MARK", nil),  \* 0201
    Cell("LIT", integer(1)),  \* 0202
    Cell("FNAME", string("w")),  \* 0203
    Cell("FNAME", string("k")),  \* 0204
    Cell("SET", nil),  \* 0205
    Cell("LIMIT", integer(0)),  \* 0206
    Cell("MARK", nil),  \* 0207
    Cell("FNAME", string("lib")),  \* 0208
    Cell("GNAME", string("setmeta")),  \* 0209
    Cell("SHUNT", nil),  \* 0210
    Cell("MARK", nil),  \* 0211
    Cell("FNAME", string("c")),  \* 0212
    Cell("FNAME", string("w")),  \* 0213
    Cell("SHIFT", nil),  \* 0214
    Cell("CALL", nil),  \* 0215
    Cell("LIMIT", integer(1)),  \* 0216
    Cell("LIMIT", integer(0)),  \* 0217
    Cell("MARK", nil),  \* 0218
    Cell("MARK", nil),  \* 0219
    Cell("FNAME", string("c")),  \* 0220
    Cell("FNAME", string("a")),  \* 0221
    Cell("EQ", nil),  \* 0222
    CellC("CFUNC", 5, string("print")),  \* 0223
    Cell("LIMIT", integer(-1)),  \* 0224
    Cell("LIMIT", integer(0)),  \* 0225
    Cell("STOP", nil)   \* 0226
    >>
Vecs_px == <<>>

(* program py:
     print(lib.v == nil)
     lib.v = [1]
*)
Code_py ==
    <<
    Cell("MARK", nil),  \* 0000
    Cell("MARK", nil),  \* 0001
    Cell("FNAME", string("lib")),  \* 0002
    Cell("GNAME", string("v")),  \* 0003
    Cell("NIL", nil),  \* 0004
    Cell("EQ", nil),  \* 0005
    CellC("CFUNC", 0, string("print")),  \* 0006
    Cell("LIMIT", integer(-1)),  \* 0007
    Cell("LIMIT", integer(0)),  \* 0008
    Cell("MARK", nil),  \* 0009
    Cell("VECTOR", nil),  \* 0010
    Cell("MARK", nil),  \* 0011
    Cell("LIT", integer(1)),  \* 0012
    Cell("VPUSH", nil),  \* 0013
    Cell("LIMIT", integer(0)),  \* 0014
    Cell("SHIFT", nil),  \* 0015
    Cell("FNAME", string("lib")),  \* 0016
    Cell("LIT", string("v")),  \* 0017
    Cell("SET", nil),  \* 0018
    Cell("LIMIT", integer(0)),  \* 0019
    Cell("STOP", nil)   \* 0020
    >>
Vecs_py == <<>>

(* program pbad: a script that does not compile
x = (1 +
*)
Code_pbad == <<>>
Vecs_pbad == <<>>

\* the programs parse() rejects: the error and the number of nodes allotted
\* before it
CompileErrors ==
    [pbad |-> [nodes |-> 6, err |-> "operator + insufficient arguments"]]

(* program pz:
     v = [1,2]
     k = 2
     v[k] = 3
     k = 0
     v[k] = 9
     k = 4294967296
     v[k] = 7
     k = 4294967297
     print(v[k])
     k = 5
     v[k] = 1
*)
Code_pz ==
    <<
    Cell("MARK", nil),  \* 0000
    Cell("VECTOR", nil),  \* 0001
    Cell("MARK", nil),  \* 0002
    Cell("LIT", integer(1)),  \* 0003
    Cell("VPUSH", nil),  \* 0004
    Cell("LIT", integer(2)),  \* 0005
    Cell("VPUSH", nil),  \* 0006
    Cell("LIMIT", integer(0)),  \* 0007
    Cell("SHIFT", nil),  \* 0008
    Cell("ASSIGNL", string("v")),  \* 0009
    Cell("LIMIT", integer(0)),  \* 0010
    Cell("LIT", integer(2)),  \* 0011
    Cell("ASSIGNP", string("k")),  \* 0012
    Cell("MARK", nil),  \* 0013
    Cell("LIT", integer(3)),  \* 0014
    Cell("FNAME", string("v")),  \* 0015
    Cell("FNAME", string("k")),  \* 0016
    Cell("SET", nil),  \* 0017
    Cell("LIMIT", integer(0)),  \* 0018
    Cell("LIT", integer(0)),  \* 0019
    Cell("ASSIGNP", string("k")),  \* 0020
    Cell("MARK", nil),  \* 0021
    Cell("LIT", integer(9)),  \* 0022
    Cell("FNAME", string("v")),  \* 0023
    Cell("FNAME", string("k")),  \* 0024
    Cell("SET", nil),  \* 0025
    Cell("LIMIT", integer(0)),  \* 0026
    Cell("LIT", integer(2 ^ IntBits)),  \* 0027
    Cell("ASSIGNP", string("k")),  \* 0028
    Cell("MARK", nil),  \* 0029
    Cell("LIT", integer(7)),  \* 0030
    Cell("FNAME", string("v")),  \* 0031
    Cell("FNAME", string("k")),  \* 0032
    Cell("SET", nil),  \* 0033
    Cell("LIMIT", integer(0)),  \* 0034
    Cell("LIT", integer(2 ^ IntBits + 1)),  \* 0035
    Cell("ASSIGNP", string("k")),  \* 0036
    Cell("MARK", nil),  \* 0037
    Cell("MARK", nil),  \* 0038
    Cell("FNAME", string("v")),  \* 0039
    Cell("FNAME", string("k")),  \* 0040
    Cell("GET", nil),  \* 0041
    CellC("CFUNC", 0, string("print")),  \* 0042
    Cell("LIMIT", integer(-1)),  \* 0043
    Cell("LIMIT", integer(0)),  \* 0044
    Cell("LIT", integer(5)),  \* 0045
    Cell("ASSIGNP", string("k")),  \* 0046
    Cell("MARK", nil),  \* 0047
    Cell("LIT", integer(1)),  \* 0048
    Cell("FNAME", string("v")),  \* 0049
    Cell("FNAME", string("k")),  \* 0050
    Cell("SET", nil),  \* 0051
    Cell("LIMIT", integer(0)),  \* 0052
    Cell("STOP", nil)   \* 0053
    >>
Vecs_pz == <<>>

(* program qa:
     m = {}
     print(hset(m, 1, 5))
*)
Code_qa ==
    <<
    Cell("MARK", nil),  \* 0000
    Cell("MARK", nil),  \* 0001
    Cell("MAP", nil),  \* 0002
    Cell("UNMAP", nil),  \* 0003
    Cell("LIMIT", integer(1)),  \* 0004
    Cell("ASSIGNL", string("m")),  \* 0005
    Cell("LIMIT", integer(0)),  \* 0006
    Cell("MARK", nil),  \* 0007
    Cell("MARK", nil),  \* 0008
    Cell("MARK", nil),  \* 0009
    Cell("FNAME", string("m")),  \* 0010
    Cell("LIT", integer(1)),  \* 0011
    Cell("LIT", integer(5)),  \* 0012
    CellC("CFUNC", 0, string("hset")),  \* 0013
    Cell("LIMIT", integer(-1)),  \* 0014
    CellC("CFUNC", 1, string("print")),  \* 0015
    Cell("LIMIT", integer(-1)),  \* 0016
    Cell("LIMIT", integer(0)),  \* 0017
    Cell("STOP", nil)   \* 0018
    >>
Vecs_qa == <<>>

(* program qb:
     function f() lib.collect() return 7 end
     m = { a = 1, b = f() }
     print(m.a, m.b)
*)
Code_qb ==
    <<
    Cell("MARK", nil),  \* 0000
    Cell("LIT", subroutine(4)),  \* 0001
    Cell("ASSIGNL", string("f")),  \* 0002
    Cell("JMP", integer(18)),  \* 0003
    Cell("PID", integer(1)),  \* 0004
    Cell("CLEAN", nil),  \* 0005
    Cell("MARK", nil),  \* 0006
    Cell("FNAME", string("lib")),  \* 0007
    Cell("GNAME", string("collect")),  \* 0008
    Cell("SHUNT", nil),  \* 0009
    Cell("MARK", nil),  \* 0010
    Cell("SHIFT", nil),  \* 0011
    Cell("CALL", nil),  \* 0012
    Cell("LIMIT", integer(1)),  \* 0013
    Cell("LIMIT", integer(0)),  \* 0014
    Cell("CLEAN", nil),  \* 0015
    Cell("LIT", integer(7)),  \* 0016
    Cell("RETURN", nil),  \* 0017
    Cell("LIMIT", integer(0)),  \* 0018
    Cell("MARK", nil),  \* 0019
    Cell("MARK", nil),  \* 0020
    Cell("MAP", nil),  \* 0021
    Cell("LIT", integer(1)),  \* 0022
    Cell("ASSIGNP", string("a")),  \* 0023
    Cell("MARK", nil),  \* 0024
    Cell("MARK", nil),  \* 0025
    CellC("CFUNC", 0, string("f")),  \* 0026
    Cell("LIMIT", integer(-1)),  \* 0027
    Cell("ASSIGNL", string("b")),  \* 0028
    Cell("LIMIT", integer(0)),  \* 0029
    Cell("UNMAP", nil),  \* 0030
    Cell("LIMIT", integer(1)),  \* 0031
    Cell("ASSIGNL", string("m")),  \* 0032
    Cell("LIMIT", integer(0)),  \* 0033
    Cell("MARK", nil),  \* 0034
    Cell("MARK", nil),  \* 0035
    Cell("FNAME", string("m")),  \* 0036
    Cell("GNAME", string("a")),  \* 0037
    Cell("FNAME", string("m")),  \* 0038
    Cell("GNAME", string("b")),  \* 0039
    CellC("CFUNC", 1, string("print")),  \* 0040
    Cell("LIMIT", integer(-1)),  \* 0041
    Cell("LIMIT", integer(0)),  \* 0042
    Cell("STOP", nil)   \* 0043
    >>
Vecs_qb == <<>>

(***************************************************************************)
(* compile() and its peephole.  process() hands the instructions of a      *)
(* program to compile() one at a time; compile() looks at the last three   *)
(* cells and either rewrites them or appends.  Emit_* lists the calls of   *)
(* process() for a program in order (this is also the code a build without *)
(* the peephole executes); the jump emitted for the left operand of && and *)
(* of or holds the number of calls made before its patch                   *)
(* `compiled(jump)->item = integer(code.depth)`.  The programs listed here *)
(* have no loop, so every jump is a forward jump.                          *)
(***************************************************************************)
(* program qc:
     a = 2
     print(1 + (a or 5))
*)
Emit_qc ==
    <<
    Cell("MARK", nil),  \* 0000
    Cell("LIT", integer(2)),  \* 0001
    Cell("LIT", string("a")),  \* 0002
    Cell("ASSIGN", integer(0)),  \* 0003
    Cell("LIMIT", integer(0)),  \* 0004
    Cell("MARK", nil),  \* 0005
    Cell("MARK", nil),  \* 0006
    Cell("LIT", integer(1)),  \* 0007
    Cell("LIT", string("a")),  \* 0008
    Cell("FIND", nil),  \* 0009
    Cell("JTRUE", integer(13)),  \* 0010
    Cell("DROP", nil),  \* 0011
    Cell("LIT", integer(5)),  \* 0012
    Cell("ADD", nil),  \* 0013
    Cell("LIT", string("print")),  \* 0014
    Cell("FIND", nil),  \* 0015
    Cell("CALL", nil),  \* 0016
    Cell("LIMIT", integer(-1)),  \* 0017
    Cell("LIMIT", integer(0)),  \* 0018
    Cell("STOP", nil)   \* 0019
    >>

(* program qe:
     b = 0
     print(1 + (b or 5))
*)
Emit_qe ==
    <<
    Cell("MARK", nil),  \* 0000
    Cell("LIT", integer(0)),  \* 0001
    Cell("LIT", string("b")),  \* 0002
    Cell("ASSIGN", integer(0)),  \* 0003
    Cell("LIMIT", integer(0)),  \* 0004
    Cell("MARK", nil),  \* 0005
    Cell("MARK", nil),  \* 0006
    Cell("LIT", integer(1)),  \* 0007
    Cell("LIT", string("b")),  \* 0008
    Cell("FIND", nil),  \* 0009
    Cell("JTRUE", integer(13)),  \* 0010
    Cell("DROP", nil),  \* 0011
    Cell("LIT", integer(5)),  \* 0012
    Cell("ADD", nil),  \* 0013
    Cell("LIT", string("print")),  \* 0014
    Cell("FIND", nil),  \* 0015
    Cell("CALL", nil),  \* 0016
    Cell("LIMIT", integer(-1)),  \* 0017
    Cell("LIMIT", integer(0)),  \* 0018
    Cell("STOP", nil)   \* 0019
    >>

Emits == [qc |-> Emit_qc, qe |-> Emit_qe]

\* compiled(vm, -k); a cell with op "" stands for the NULL of back2, back3
compiled(cells, k) ==
    IF Len(cells) >= k THEN cells[Len(cells) + 1 - k] ELSE Cell("", nil)

\* vm->code.depth-- and the stores into the last cells
code_drop(cells) == SubSeq(cells, 1, Len(cells) - 1)
code_put(cells, k, c) == [cells EXCEPT ![Len(cells) + 1 - k] = c]

\* compile(): the cells after the call.  equal() of two name literals is
\* the equality of the items.
compile(cells, op, item) ==
    LET back1 == compiled(cells, 1)
        back2 == compiled(cells, 2)
        back3 == compiled(cells, 3)
        zero == item.type = "INTEGER" /\ item.n = 0
    IN IF Len(cells) = 0 THEN Append(cells, Cell(op, item))
       ELSE IF op = "CLEAN" /\ back1.op \in {"CLEAN", "RETURN"} THEN cells
       ELSE IF op = "RETURN" /\ back1.op = "RETURN" THEN cells
       ELSE IF op = "FIND" /\ back1.op = "LIT"
       THEN IF back2.op = "COPIES" /\ back3.op = "FNAME" /\ back1.item = back3.item
            THEN code_drop(code_put(cells, 2, Cell("COPIES", integer(back2.item.n + 1))))
            ELSE IF back2.op = "FNAME" /\ back1.item = back2.item
            THEN code_put(cells, 1, Cell("COPIES", integer(1)))
            ELSE code_put(cells, 1, Cell("FNAME", back1.item))
       ELSE IF op = "GET" /\ back1.op = "LIT"
       THEN code_put(cells, 1, Cell("GNAME", back1.item))
       ELSE IF op = "CALL" /\ back1.op = "FNAME"
       THEN code_put(cells, 1, Cell("CFUNC", back1.item))
       ELSE IF op = "ASSIGN" /\ zero /\ back1.op = "LIT" /\ back3.op = "FNAME"
               /\ back1.item = back3.item /\ back2.op \in {"ADD_LIT", "MUL_LIT"}
       THEN code_drop(code_put(cells, 3, Cell("UPDATE", back1.item)))
       ELSE IF op = "LIMIT" /\ zero /\ back3.op = "MARK" /\ back2.op = "UPDATE"
       THEN code_drop(code_put(code_put(cells, 3, back2), 2, back1))
       ELSE IF op = "ASSIGN" /\ zero /\ back1.op = "LIT"
       THEN code_put(cells, 1, Cell("ASSIGNL", back1.item))
       ELSE IF op = "LIMIT" /\ zero /\ back3.op = "MARK" /\ back2.op = "LIT"
               /\ back1.op = "ASSIGNL"
       THEN code_drop(code_put(code_put(cells, 3, back2), 2,
                               Cell("ASSIGNP", back1.item)))
       ELSE IF op = "NEG" /\ back1.op = "LIT" /\ back1.item.type = "INTEGER"
       THEN code_put(cells, 1, Cell("LIT", integer(0 - back1.item.n)))
       ELSE IF op = "ADD" /\ back1.op = "LIT"
       THEN code_put(cells, 1, Cell("ADD_LIT", back1.item))
       ELSE IF op = "MUL" /\ back1.op = "LIT"
       THEN code_put(cells, 1, Cell("MUL_LIT", back1.item))
       ELSE Append(cells, Cell(op, item))

\* is call number j (from 1) the jump of an && or an or whose patch comes
\* after `calls` calls?
patch_due(em, j, calls) ==
    em[j].op \in {"JTRUE", "JFALSE"} /\ em[j].item.n = calls

\* source() over the calls em from call number i on: ret[j] is what call
\* number j returned (code.depth - 1), the cell a later patch writes to
RECURSIVE process(_, _, _, _)
process(em, i, cells, ret) ==
    LET patched ==
            [k \in 1..Len(cells) |->
                IF \E j \in 1..(i - 1) : patch_due(em, j, i - 1) /\ ret[j] = k - 1
                THEN [cells[k] EXCEPT !.item = integer(Len(cells))]
                ELSE cells[k]]
        emit(next) == process(em, i + 1, next, Append(ret, Len(next) - 1))
    IN IF i > Len(em) THEN patched
       ELSE emit(compile(patched, em[i].op, em[i].item))

\* rela_create_ex numbers the CFUNC cells: code->cache = vm->cache.cfuncs++
cache_slots(cells) ==
    [k \in 1..Len(cells) |->
        IF cells[k].op = "CFUNC"
        THEN [cells[k] EXCEPT
                !.cache = Cardinality({j \in 1..(k - 1) : cells[j].op = "CFUNC"})]
        ELSE cells[k]]

Code_qc == cache_slots(process(Emit_qc, 1, <<>>, <<>>))
Vecs_qc == <<>>
Code_qe == cache_slots(process(Emit_qe, 1, <<>>, <<>>))
Vecs_qe == <<>>

(* program qf:
     x = 1
     function outer(v)
       function inner() print(v, x) end
       function mid() v = 8 x = 2 inner() end
       mid()
     end
     outer(7)
     function rec(n)
       print(x)
       x = n
       if n < 4 rec(n + 4) end
     end
     rec(3)
*)
Code_qf ==
    <<
    Cell("LIT", integer(1)),  \* 0000
    Cell("ASSIGNP", string("x")),  \* 0001
    Cell("MARK", nil),  \* 0002
    Cell("LIT", subroutine(6)),  \* 0003
    Cell("ASSIGNL", string("outer")),  \* 0004
    Cell("JMP", integer(52)),  \* 0005
    Cell("PID", integer(1)),  \* 0006
    Cell("ASSIGNL", string("v")),  \* 0007
    Cell("CLEAN", nil),  \* 0008
    Cell("MARK", nil),  \* 0009
    Cell("LIT", subroutine(13)),  \* 0010
    Cell("ASSIGNL", string("inner")),  \* 0011
    Cell("JMP", integer(25)),  \* 0012
    Cell("PID", integer(2)),  \* 0013
    Cell("PID", integer(1)),  \* 0014
    Cell("CLEAN", nil),  \* 0015
    Cell("MARK", nil),  \* 0016
    Cell("MARK", nil),  \* 0017
    Cell("FNAME", string("v")),  \* 0018
    Cell("FNAME", string("x")),  \* 0019
    CellC("CFUNC", 0, string("print")),  \* 0020
    Cell("LIMIT", integer(-1)),  \* 0021
    Cell("LIMIT", integer(0)),  \* 0022
    Cell("CLEAN", nil),  \* 0023
    Cell("RETURN", nil),  \* 0024
    Cell("LIMIT", integer(0)),  \* 0025
    Cell("MARK", nil),  \* 0026
    Cell("LIT", subroutine(30)),  \* 0027
    Cell("ASSIGNL", string("mid")),  \* 0028
    Cell("JMP", integer(44)),  \* 0029
    Cell("PID", integer(3)),  \* 0030
    Cell("PID", integer(1)),  \* 0031
    Cell("CLEAN", nil),  \* 0032
    Cell("LIT", integer(8)),  \* 0033
    Cell("ASSIGNP", string("v")),  \* 0034
    Cell("LIT", integer(2)),  \* 0035
    Cell("ASSIGNP", string("x")),  \* 0036
    Cell("MARK", nil),  \* 0037
    Cell("MARK", nil),  \* 0038
    CellC("CFUNC", 1, string("inner")),  \* 0039
    Cell("LIMIT", integer(-1)),  \* 0040
    Cell("LIMIT", integer(0)),  \* 0041
    Cell("CLEAN", nil),  \* 0042
    Cell("RETURN", nil),  \* 0043
    Cell("LIMIT", integer(0)),  \* 0044
    Cell("MARK", nil),  \* 0045
    Cell("MARK", nil),  \* 0046
    CellC("CFUNC", 2, string("mid")),  \* 0047
    Cell("LIMIT", integer(-1)),  \* 0048
    Cell("LIMIT", integer(0)),  \* 0049
    Cell("CLEAN", nil),  \* 0050
    Cell("RETURN", nil),  \* 0051
    Cell("LIMIT", integer(0)),  \* 0052
    Cell("MARK", nil),  \* 0053
    Cell("MARK", nil),  \* 0054
    Cell("LIT", integer(7)),  \* 0055
    CellC("CFUNC", 3, string("outer")),  \* 0056
    Cell("LIMIT", integer(-1)),  \* 0057
    Cell("LIMIT", integer(0)),  \* 0058
    Cell("MARK", nil),  \* 0059
    Cell("LIT", subroutine(63)),  \* 0060
    Cell("ASSIGNL", string("rec")),  \* 0061
    Cell("JMP", integer(92)),  \* 0062
    Cell("PID", integer(4)),  \* 0063
    Cell("ASSIGNL", string("n")),  \* 0064
    Cell("CLEAN", nil),  \* 0065
    Cell("MARK", nil),  \* 0066
    Cell("MARK", nil),  \* 0067
    Cell("FNAME", string("x")),  \* 0068
    CellC("CFUNC", 4, string("print")),  \* 0069
    Cell("LIMIT", integer(-1)),  \* 0070
    Cell("LIMIT", integer(0)),  \* 0071
    Cell("MARK", nil),  \* 0072
    Cell("FNAME", string("n")),  \* 0073
    Cell("ASSIGNL", string("x")),  \* 0074
    Cell("LIMIT", integer(0)),  \* 0075
    Cell("MARK", nil),  \* 0076
    Cell("FNAME", string("n")),  \* 0077
    Cell("LIT", integer(4)),  \* 0078
    Cell("LT", nil),  \* 0079
    Cell("JFALSE", integer(89)),  \* 0080
    Cell("DROP", nil),  \* 0081
    Cell("MARK", nil),  \* 0082
    Cell("MARK", nil),  \* 0083
    Cell("FNAME", string("n")),  \* 0084
    Cell("ADD_LIT", integer(4)),  \* 0085
    CellC("CFUNC", 5, string("rec")),  \* 0086
    Cell("LIMIT", integer(-1)),  \* 0087
    Cell("LIMIT", integer(1)),  \* 0088
    Cell("LIMIT", integer(0)),  \* 0089
    Cell("CLEAN", nil),  \* 0090
    Cell("RETURN", nil),  \* 0091
    Cell("LIMIT", integer(0)),  \* 0092
    Cell("MARK", nil),  \* 0093
    Cell("MARK", nil),  \* 0094
    Cell("LIT", integer(3)),  \* 0095
    CellC("CFUNC", 6, string("rec")),  \* 0096
    Cell("LIMIT", integer(-1)),  \* 0097
    Cell("LIMIT", integer(0)),  \* 0098
    Cell("STOP", nil)   \* 0099
    >>
Vecs_qf == <<>>

(* program qg:
     function f() lib.resume(co) print(1) end
     co = lib.coroutine(f)
     lib.resume(co)
     print(2)
*)
Code_qg ==
    <<
    Cell("MARK", nil),  \* 0000
    Cell("LIT", subroutine(4)),  \* 0001
    Cell("ASSIGNL", string("f")),  \* 0002
    Cell("JMP", integer(24)),  \* 0003
    Cell("PID", integer(1)),  \* 0004
    Cell("CLEAN", nil),  \* 0005
    Cell("MARK", nil),  \* 0006
    Cell("FNAME", string("lib")),  \* 0007
    Cell("GNAME", string("resume")),  \* 0008
    Cell("SHUNT", nil),  \* 0009
    Cell("MARK", nil),  \* 0010
    Cell("FNAME", string("co")),  \* 0011
    Cell("SHIFT", nil),  \* 0012
    Cell("CALL", nil),  \* 0013
    Cell("LIMIT", integer(1)),  \* 0014
    Cell("LIMIT", integer(0)),  \* 0015
    Cell("MARK", nil),  \* 0016
    Cell("MARK", nil),  \* 0017
    Cell("LIT", integer(1)),  \* 0018
    CellC("CFUNC", 0, string("print")),  \* 0019
    Cell("LIMIT", integer(-1)),  \* 0020
    Cell("LIMIT", integer(0)),  \* 0021
    Cell("CLEAN", nil),  \* 0022
    Cell("RETURN", nil),  \* 0023
    Cell("LIMIT", integer(0)),  \* 0024
    Cell("MARK", nil),  \* 0025
    Cell("FNAME", string("lib")),  \* 0026
    Cell("GNAME", string("coroutine")),  \* 0027
    Cell("SHUNT", nil),  \* 0028
    Cell("MARK", nil),  \* 0029
    Cell("FNAME", string("f")),  \* 0030
    Cell("SHIFT", nil),  \* 0031
    Cell("CALL", nil),  \* 0032
    Cell("LIMIT", integer(1)),  \* 0033
    Cell("ASSIGNL", string("co")),  \* 0034
    Cell("LIMIT", integer(0)),  \* 0035
    Cell("MARK", nil),  \* 0036
    Cell("FNAME", string("lib")),  \* 0037
    Cell("GNAME", string("resume")),  \* 0038
    Cell("SHUNT", nil),  \* 0039
    Cell("MARK", nil),  \* 0040
    Cell("FNAME", string("co")),  \* 0041
    Cell("SHIFT", nil),  \* 0042
    Cell("CALL", nil),  \* 0043
    Cell("LIMIT", integer(1)),  \* 0044
    Cell("LIMIT", integer(0)),  \* 0045
    Cell("MARK", nil),  \* 0046
    Cell("MARK", nil),  \* 0047
    Cell("LIT", integer(2)),  \* 0048
    CellC("CFUNC", 1, string("print")),  \* 0049
    Cell("LIMIT", integer(-1)),  \* 0050
    Cell("LIMIT", integer(0)),  \* 0051
    Cell("STOP", nil)   \* 0052
    >>
Vecs_qg == <<>>

(* program qh:
     print(1)
     lib.yield(5)
     print(2)
*)
Code_qh ==
    <<
    Cell("MARK", nil),  \* 0000
    Cell("MARK", nil),  \* 0001
    Cell("LIT", integer(1)),  \* 0002
    CellC("CFUNC", 0, string("print")),  \* 0003
    Cell("LIMIT", integer(-1)),  \* 0004
    Cell("LIMIT", integer(0)),  \* 0005
    Cell("MARK", nil),  \* 0006
    Cell("FNAME", string("lib")),  \* 0007
    Cell("GNAME", string("yield")),  \* 0008
    Cell("SHUNT", nil),  \* 0009
    Cell("MARK", nil),  \* 0010
    Cell("LIT", integer(5)),  \* 0011
    Cell("SHIFT", nil),  \* 0012
    Cell("CALL", nil),  \* 0013
    Cell("LIMIT", integer(1)),  \* 0014
    Cell("LIMIT", integer(0)),  \* 0015
    Cell("MARK", nil),  \* 0016
    Cell("MARK", nil),  \* 0017
    Cell("LIT", integer(2)),  \* 0018
    CellC("CFUNC", 1, string("print")),  \* 0019
    Cell("LIMIT", integer(-1)),  \* 0020
    Cell("LIMIT", integer(0)),  \* 0021
    Cell("STOP", nil)   \* 0022
    >>
Vecs_qh == <<>>

(* program qi:
     m = {}
     n = m
     lib.setmeta(m, n)
     print(1)
     lib.collect()
     print(2)
*)
Code_qi ==
    <<
    Cell("MARK", nil),  \* 0000
    Cell("MARK", nil),  \* 0001
    Cell("MAP", nil),  \* 0002
    Cell("UNMAP", nil),  \* 0003
    Cell("LIMIT", integer(1)),  \* 0004
    Cell("ASSIGNL", string("m")),  \* 0005
    Cell("LIMIT", integer(0)),  \* 0006
    Cell("MARK", nil),  \* 0007
    Cell("FNAME", string("m")),  \* 0008
    Cell("ASSIGNL", string("n")),  \* 0009
    Cell("LIMIT", integer(0)),  \* 0010
    Cell("MARK", nil),  \* 0011
    Cell("FNAME", string("lib")),  \* 0012
    Cell("GNAME", string("setmeta")),  \* 0013
    Cell("SHUNT", nil),  \* 0014
    Cell("MARK", nil),  \* 0015
    Cell("FNAME", string("m")),  \* 0016
    Cell("FNAME", string("n")),  \* 0017
    Cell("SHIFT", nil),  \* 0018
    Cell("CALL", nil),  \* 0019
    Cell("LIMIT", integer(1)),  \* 0020
    Cell("LIMIT", integer(0)),  \* 0021
    Cell("MARK", nil),  \* 0022
    Cell("MARK", nil),  \* 0023
    Cell("LIT", integer(1)),  \* 0024
    CellC("CFUNC", 0, string("print")),  \* 0025
    Cell("LIMIT", integer(-1)),  \* 0026
    Cell("LIMIT", integer(0)),  \* 0027
    Cell("MARK", nil),  \* 0028
    Cell("FNAME", string("lib")),  \* 0029
    Cell("GNAME", string("collect")),  \* 0030
    Cell("SHUNT", nil),  \* 0031
    Cell("MARK", nil),  \* 0032
    Cell("SHIFT", nil),  \* 0033
    Cell("CALL", nil),  \* 0034
    Cell("LIMIT", integer(1)),  \* 0035
    Cell("LIMIT", integer(0)),  \* 0036
    Cell("MARK", nil),  \* 0037
    Cell("MARK", nil),  \* 0038
    Cell("LIT", integer(2)),  \* 0039
    CellC("CFUNC", 1, string("print")),  \* 0040
    Cell("LIMIT", integer(-1)),  \* 0041
    Cell("LIMIT", integer(0)),  \* 0042
    Cell("STOP", nil)   \* 0043
    >>
Vecs_qi == <<>>

(* program qj:
     function inner() while true lib.yield(7) end end
     ci = lib.coroutine(inner)
     lib.resume(ci)
     function iter() lib.yield(1) lib.resume(ci) lib.yield(2) end
     cor = lib.coroutine(iter)
     for x in cor print(x) end
*)
Code_qj ==
    <<
    Cell("MARK", nil),  \* 0000
    Cell("LIT", subroutine(4)),  \* 0001
    Cell("ASSIGNL", string("inner")),  \* 0002
    Cell("JMP", integer(28)),  \* 0003
    Cell("PID", integer(1)),  \* 0004
    Cell("CLEAN", nil),  \* 0005
    Cell("MARK", nil),  \* 0006
    Cell("LOOP", integer(24)),  \* 0007
    Cell("MARK", nil),  \* 0008
    Cell("TRUE", nil),  \* 0009
    Cell("LIMIT", integer(1)),  \* 0010
    Cell("JFALSE", integer(24)),  \* 0011
    Cell("DROP", nil),  \* 0012
    Cell("MARK", nil),  \* 0013
    Cell("FNAME", string("lib")),  \* 0014
    Cell("GNAME", string("yield")),  \* 0015
    Cell("SHUNT", nil),  \* 0016
    Cell("MARK", nil),  \* 0017
    Cell("LIT", integer(7)),  \* 0018
    Cell("SHIFT", nil),  \* 0019
    Cell("CALL", nil),  \* 0020
    Cell("LIMIT", integer(1)),  \* 0021
    Cell("LIMIT", integer(0)),  \* 0022
    Cell("JMP", integer(8)),  \* 0023
    Cell("UNLOOP", nil),  \* 0024
    Cell("LIMIT", integer(0)),  \* 0025
    Cell("CLEAN", nil),  \* 0026
    Cell("RETURN", nil),  \* 0027
    Cell("LIMIT", integer(0)),  \* 0028
    Cell("MARK", nil),  \* 0029
    Cell("FNAME", string("lib")),  \* 0030
    Cell("GNAME", string("coroutine")),  \* 0031
    Cell("SHUNT", nil),  \* 0032
    Cell("MARK", nil),  \* 0033
    Cell("FNAME", string("inner")),  \* 0034
    Cell("SHIFT", nil),  \* 0035
    Cell("CALL", nil),  \* 0036
    Cell("LIMIT", integer(1)),  \* 0037
    Cell("ASSIGNL", string("ci")),  \* 0038
    Cell("LIMIT", integer(0)),  \* 0039
    Cell("MARK", nil),  \* 0040
    Cell("FNAME", string("lib")),  \* 0041
    Cell("GNAME", string("resume")),  \* 0042
    Cell("SHUNT", nil),  \* 0043
    Cell("MARK", nil),  \* 0044
    Cell("FNAME", string("ci")),  \* 0045
    Cell("SHIFT", nil),  \* 0046
    Cell("CALL", nil),  \* 0047
    Cell("LIMIT", integer(1)),  \* 0048
    Cell("LIMIT", integer(0)),  \* 0049
    Cell("MARK", nil),  \* 0050
    Cell("LIT", subroutine(54)),  \* 0051
    Cell("ASSIGNL", string("iter")),  \* 0052
    Cell("JMP", integer(88)),  \* 0053
    Cell("PID", integer(2)),  \* 0054
    Cell("CLEAN", nil),  \* 0055
    Cell("MARK", nil),  \* 0056
    Cell("FNAME", string("lib")),  \* 0057
    Cell("GNAME", string("yield")),  \* 0058
    Cell("SHUNT", nil),  \* 0059
    Cell("MARK", nil),  \* 0060
    Cell("LIT", integer(1)),  \* 0061
    Cell("SHIFT", nil),  \* 0062
    Cell("CALL", nil),  \* 0063
    Cell("LIMIT", integer(1)),  \* 0064
    Cell("LIMIT", integer(0)),  \* 0065
    Cell("MARK", nil),  \* 0066
    Cell("FNAME", string("lib")),  \* 0067
    Cell("GNAME", string("resume")),  \* 0068
    Cell("SHUNT", nil),  \* 0069
    Cell("MARK", nil),  \* 0070
    Cell("FNAME", string("ci")),  \* 0071
    Cell("SHIFT", nil),  \* 0072
    Cell("CALL", nil),  \* 0073
    Cell("LIMIT", integer(1)),  \* 0074
    Cell("LIMIT", integer(0)),  \* 0075
    Cell("MARK", nil),  \* 0076
    Cell("FNAME", string("lib")),  \* 0077
    Cell("GNAME", string("yield")),  \* 0078
    Cell("SHUNT", nil),  \* 0079
    Cell("MARK", nil),  \* 0080
    Cell("LIT", integer(2)),  \* 0081
    Cell("SHIFT", nil),  \* 0082
    Cell("CALL", nil),  \* 0083
    Cell("LIMIT", integer(1)),  \* 0084
    Cell("LIMIT", integer(0)),  \* 0085
    Cell("CLEAN", nil),  \* 0086
    Cell("RETURN", nil),  \* 0087
    Cell("LIMIT", integer(0)),  \* 0088
    Cell("MARK", nil),  \* 0089
    Cell("FNAME", string("lib")),  \* 0090
    Cell("GNAME", string("coroutine")),  \* 0091
    Cell("SHUNT", nil),  \* 0092
    Cell("MARK", nil),  \* 0093
    Cell("FNAME", string("iter")),  \* 0094
    Cell("SHIFT", nil),  \* 0095
    Cell("CALL", nil),  \* 0096
    Cell("LIMIT", integer(1)),  \* 0097
    Cell("ASSIGNL", string("cor")),  \* 0098
    Cell("LIMIT", integer(0)),  \* 0099
    Cell("MARK", nil),  \* 0100
    Cell("MARK", nil),  \* 0101
    Cell("FNAME", string("cor")),  \* 0102
    Cell("LIMIT", integer(1)),  \* 0103
    Cell("LOOP", integer(113)),  \* 0104
    Cell("FOR", vector(1)),  \* 0105
    Cell("MARK", nil),  \* 0106
    Cell("MARK", nil),  \* 0107
    Cell("FNAME", string("x")),  \* 0108
    CellC("CFUNC", 0, string("print")),  \* 0109
    Cell("LIMIT", integer(-1)),  \* 0110
    Cell("LIMIT", integer(0)),  \* 0111
    Cell("JMP", integer(105)),  \* 0112
    Cell("UNLOOP", nil),  \* 0113
    Cell("LIMIT", integer(0)),  \* 0114
    Cell("STOP", nil)   \* 0115
    >>
Vecs_qj == <<<<string("x")>>>>

(* program qk:
     print(1)
     s = "a"
     for x in s print(x) end
     print(2)
*)
Code_qk ==
    <<
    Cell("MARK", nil),  \* 0000
    Cell("MARK", nil),  \* 0001
    Cell("LIT", integer(1)),  \* 0002
    CellC("CFUNC", 0, string("print")),  \* 0003
    Cell("LIMIT", integer(-1)),  \* 0004
    Cell("LIMIT", integer(0)),  \* 0005
    Cell("LIT", string("a")),  \* 0006
    Cell("ASSIGNP", string("s")),  \* 0007
    Cell("MARK", nil),  \* 0008
    Cell("MARK", nil),  \* 0009
    Cell("FNAME", string("s")),  \* 0010
    Cell("LIMIT", integer(1)),  \* 0011
    Cell("LOOP", integer(21)),  \* 0012
    Cell("FOR", vector(1)),  \* 0013
    Cell("MARK", nil),  \* 0014
    Cell("MARK", nil),  \* 0015
    Cell("FNAME", string("x")),  \* 0016
    CellC("CFUNC", 1, string("print")),  \* 0017
    Cell("LIMIT", integer(-1)),  \* 0018
    Cell("LIMIT", integer(0)),  \* 0019
    Cell("JMP", integer(13)),  \* 0020
    Cell("UNLOOP", nil),  \* 0021
    Cell("LIMIT", integer(0)),  \* 0022
    Cell("MARK", nil),  \* 0023
    Cell("MARK", nil),  \* 0024
    Cell("LIT", integer(2)),  \* 0025
    CellC("CFUNC", 2, string("print")),  \* 0026
    Cell("LIMIT", integer(-1)),  \* 0027
    Cell("LIMIT", integer(0)),  \* 0028
    Cell("STOP", nil)   \* 0029
    >>
Vecs_qk == <<<<string("x")>>>>

(* program ql:
     m = {}
     k = 1
     a, m[k] = 5
     print(a, m[k])
*)
Code_ql ==
    <<
    Cell("MARK", nil),  \* 0000
    Cell("MARK", nil),  \* 0001
    Cell("MAP", nil),  \* 0002
    Cell("UNMAP", nil),  \* 0003
    Cell("LIMIT", integer(1)),  \* 0004
    Cell("ASSIGNL", string("m")),  \* 0005
    Cell("LIMIT", integer(0)),  \* 0006
    Cell("LIT", integer(1)),  \* 0007
    Cell("ASSIGNP", string("k")),  \* 0008
    Cell("MARK", nil),  \* 0009
    Cell("LIT", integer(5)),  \* 0010
    Cell("ASSIGNL", string("a")),  \* 0011
    Cell("FNAME", string("m")),  \* 0012
    Cell("FNAME", string("k")),  \* 0013
    Cell("SET", nil),  \* 0014
    Cell("LIMIT", integer(0)),  \* 0015
    Cell("MARK", nil),  \* 0016
    Cell("MARK", nil),  \* 0017
    Cell("FNAME", string("a")),  \* 0018
    Cell("FNAME", string("m")),  \* 0019
    Cell("FNAME", string("k")),  \* 0020
    Cell("GET", nil),  \* 0021
    CellC("CFUNC", 0, string("print")),  \* 0022
    Cell("LIMIT", integer(-1)),  \* 0023
    Cell("LIMIT", integer(0)),  \* 0024
    Cell("STOP", nil)   \* 0025
    >>
Vecs_ql == <<>>

(* program qm:
     print(1)
     function f() f() end
     f()
     print(2)
*)
Code_qm ==
    <<
    Cell("MARK", nil),  \* 0000
    Cell("MARK", nil),  \* 0001
    Cell("LIT", integer(1)),  \* 0002
    CellC("CFUNC", 0, string("print")),  \* 0003
    Cell("LIMIT", integer(-1)),  \* 0004
    Cell("LIMIT", integer(0)),  \* 0005
    Cell("MARK", nil),  \* 0006
    Cell("LIT", subroutine(10)),  \* 0007
    Cell("ASSIGNL", string("f")),  \* 0008
    Cell("JMP", integer(19)),  \* 0009
    Cell("PID", integer(1)),  \* 0010
    Cell("CLEAN", nil),  \* 0011
    Cell("MARK", nil),  \* 0012
    Cell("MARK", nil),  \* 0013
    CellC("CFUNC", 1, string("f")),  \* 0014
    Cell("LIMIT", integer(-1)),  \* 0015
    Cell("LIMIT", integer(0)),  \* 0016
    Cell("CLEAN", nil),  \* 0017
    Cell("RETURN", nil),  \* 0018
    Cell("LIMIT", integer(0)),  \* 0019
    Cell("MARK", nil),  \* 0020
    Cell("MARK", nil),  \* 0021
    CellC("CFUNC", 2, string("f")),  \* 0022
    Cell("LIMIT", integer(-1)),  \* 0023
    Cell("LIMIT", integer(0)),  \* 0024
    Cell("MARK", nil),  \* 0025
    Cell("MARK", nil),  \* 0026
    Cell("LIT", integer(2)),  \* 0027
    CellC("CFUNC", 3, string("print")),  \* 0028
    Cell("LIMIT", integer(-1)),  \* 0029
    Cell("LIMIT", integer(0)),  \* 0030
    Cell("STOP", nil)   \* 0031
    >>
Vecs_qm == <<>>

\* the for statements of a program as process() lays them out: MARK, the
\* iterable (its marks and limits balanced), LOOP with the address of the
\* UNLOOP, FOR, the block, JMP, UNLOOP, LIMIT 0
RECURSIVE for_mark(_, _, _)
for_mark(c, a, open) ==
    IF a < 0 THEN -1
    ELSE IF c[a + 1].op = "LIMIT" THEN for_mark(c, a - 1, open + 1)
    ELSE IF c[a + 1].op = "MARK"
         THEN IF open = 0 THEN a ELSE for_mark(c, a - 1, open - 1)
    ELSE for_mark(c, a - 1, open)

ForLoops(c) ==
    {[mark |-> for_mark(c, l - 1, 0), loop |-> l, exit |-> c[l + 1].item.n] :
        l \in {a \in 0..(Len(c) - 2) : c[a + 1].op = "LOOP" /\ c[a + 2].op = "FOR"}}

Programs ==
    [pa |-> [code |-> Code_pa, vecs |-> Vecs_pa],
     pb |-> [code |-> Code_pb, vecs |-> Vecs_pb],
     pc |-> [code |-> Code_pc, vecs |-> Vecs_pc],
     pd |-> [code |-> Code_pd, vecs |-> Vecs_pd],
     pf |-> [code |-> Code_pf, vecs |-> Vecs_pf],
     pt7 |-> [code |-> Code_pt7, vecs |-> Vecs_pt7],
     pe1 |-> [code |-> Code_pe1, vecs |-> Vecs_pe1],
     pe2 |-> [code |-> Code_pe2, vecs |-> Vecs_pe2],
     pe3 |-> [code |-> Code_pe3, vecs |-> Vecs_pe3],
     pe4 |-> [code |-> Code_pe4, vecs |-> Vecs_pe4],
     pg |-> [code |-> Code_pg, vecs |-> Vecs_pg],
     ph |-> [code |-> Code_ph, vecs |-> Vecs_ph],
     pi |-> [code |-> Code_pi, vecs |-> Vecs_pi],
     pj |-> [code |-> Code_pj, vecs |-> Vecs_pj],
     pk |-> [code |-> Code_pk, vecs |-> Vecs_pk],
     pl |-> [code |-> Code_pl, vecs |-> Vecs_pl],
     pm |-> [code |-> Code_pm, vecs |-> Vecs_pm],
     pn |-> [code |-> Code_pn, vecs |-> Vecs_pn],
     po |-> [code |-> Code_po, vecs |-> Vecs_po],
     pq |-> [code |-> Code_pq, vecs |-> Vecs_pq],
     pr |-> [code |-> Code_pr, vecs |-> Vecs_pr],
     ps |-> [code |-> Code_ps, vecs |-> Vecs_ps],
     pu |-> [code |-> Code_pu, vecs |-> Vecs_pu],
     pv |-> [code |-> Code_pv, vecs |-> Vecs_pv],
     pw |-> [code |-> Code_pw, vecs |-> Vecs_pw],
     px |-> [code |-> Code_px, vecs |-> Vecs_px],
     py |-> [code |-> Code_py, vecs |-> Vecs_py],
     pbad |-> [code |-> Code_pbad, vecs |-> Vecs_pbad],
     pz |-> [code |-> Code_pz, vecs |-> Vecs_pz],
     qa |-> [code |-> Code_qa, vecs |-> Vecs_qa],
     qb |-> [code |-> Code_qb, vecs |-> Vecs_qb],
     qc |-> [code |-> Code_qc, vecs |-> Vecs_qc],
     qe |-> [code |-> Code_qe, vecs |-> Vecs_qe],
     qf |-> [code |-> Code_qf, vecs |-> Vecs_qf],
     qg |-> [code |-> Code_qg, vecs |-> Vecs_qg],
     qh |-> [code |-> Code_qh, vecs |-> Vecs_qh],
     qi |-> [code |-> Code_qi, vecs |-> Vecs_qi],
     qj |-> [code |-> Code_qj, vecs |-> Vecs_qj],
     qk |-> [code |-> Code_qk, vecs |-> Vecs_qk],
     ql |-> [code |-> Code_ql, vecs |-> Vecs_ql],
     qm |-> [code |-> Code_qm, vecs |-> Vecs_qm]]

code(s) == s.code
\* number of CFUNC call sites (vm->cache.cfuncs)
cfuncs(s) == Cardinality({i \in 1..Len(code(s)) : code(s)[i].op = "CFUNC"})

(***************************************************************************)
(* strcmp order on the strings that occur as names or literals: position   *)
(* in the bytewise-sorted list below.                                      *)
(***************************************************************************)
StrOrder ==
    <<"==", "a", "apply", "assert", "b", "body", "c", "ci", "co", "collect",
      "cor", "coroutine", "f", "g", "gen", "h", "hcollect", "hset", "i", "infor",
      "iniffor", "inner", "inwhile", "it", "iter", "k", "lib", "m", "make",
      "mid", "n", "one", "outer", "print", "rec", "resume", "s", "setmeta",
      "top", "two", "v", "w",
      "x", "y", "yield", "z">>
StrRank(str) == CHOOSE i \in 1..Len(StrOrder) : StrOrder[i] = str
strcmp(a, b) == StrRank(a) - StrRank(b)

(***************************************************************************)
(* Object pools (pool_t): used bits, rotating cursor, live count, objects. *)
(* A pool has cap slots in the model; the C pool grows by pages instead.   *)
(***************************************************************************)
frame0 == [loops |-> 0, marks |-> 0, ip |-> 0, map |-> nil,
           locals |-> <<>>, path |-> <<>>]
cor0 == [ip |-> 0, state |-> COR_SUSPENDED,
         stack |-> [cells |-> <<>>, depth |-> 0],
         other |-> <<>>, frames |-> <<>>, marks |-> <<>>, loops |-> <<>>,
         map |-> nil]
map0 == [meta |-> nil, keys |-> <<>>, vals |-> <<>>]
vec0 == [meta |-> nil, items |-> <<>>]

Pool(cap, zero) == [used |-> [i \in 1..cap |-> FALSE], next |-> 0, extant |-> 0,
                    obj |-> [i \in 1..cap |-> zero]]

\* pool_alloc's choice of slot: first free slot from the cursor on, then
\* from the start; 0 when the model's capacity is exhausted
pool_alloc(pool) ==
    LET cap == Len(pool.used)
        hi == {i \in 1..cap : i > pool.next /\ ~pool.used[i]}
        lo == {i \in 1..cap : i <= pool.next /\ ~pool.used[i]}
        least(S) == CHOOSE i \in S : \A j \in S : i <= j
    IN IF hi # {} THEN least(hi) ELSE IF lo # {} THEN least(lo) ELSE 0

pool_allot_index(pool, index, zero) ==
    [pool EXCEPT !.used[index] = TRUE, !.obj[index] = zero,
                 !.next = index, !.extant = @ + 1]

pool_free(pool, index, zero) ==
    [pool EXCEPT !.used[index] = FALSE, !.obj[index] = zero, !.extant = @ - 1]

(***************************************************************************)
(* Error channel and model flags                                           *)
(***************************************************************************)
\* ensure(vm, cond, msg) failing: the message is stored and control leaves
\* the interpreter; every operator below returns a failed state unchanged
\* (jmp: the longjmp to rela_run_ex's setjmp is under way)
Failed(s) == s.jmp \/ s.ub \/ s.bound
ensure_fail(s, msg) == IF Failed(s) THEN s ELSE [s EXCEPT !.err = msg, !.jmp = TRUE]
Undefined(s) == [s EXCEPT !.ub = TRUE]
OutOfModel(s) == [s EXCEPT !.bound = TRUE]

vec_allot(s) == pool_alloc(s.vecs)
map_allot(s) == pool_alloc(s.maps)
cor_allot(s) == pool_alloc(s.cors)

(***************************************************************************)
(* Collector: gc_mark_* follow these references; gc() sweeps every used    *)
(* slot the marking did not reach.                                         *)
(***************************************************************************)
Node(k, id) == [k |-> k, id |-> id]

\* gc_mark_item: the pool object an item refers to (strings and userdata
\* have no pool object in this model)
gc_mark_item(x) ==
    IF x.type = "VECTOR" /\ x.n # NULL THEN {Node("vec", x.n)}
    ELSE IF x.type = "MAP" /\ x.n # NULL THEN {Node("map", x.n)}
    ELSE IF x.type = "COROUTINE" /\ x.n # NULL THEN {Node("cor", x.n)}
    ELSE {}

ItemsOf(q) == UNION {gc_mark_item(q[i]) : i \in 1..Len(q)}

gc_mark_vec(s, v) ==
    gc_mark_item(s.vecs.obj[v].meta) \cup ItemsOf(s.vecs.obj[v].items)

gc_mark_map(s, m) ==
    gc_mark_item(s.maps.obj[m].meta) \cup ItemsOf(s.maps.obj[m].keys)
        \cup ItemsOf(s.maps.obj[m].vals)

\* stack and other up to their depths, the pending map, every frame's locals
gc_mark_cor(s, c) ==
    LET cor == s.cors.obj[c]
    IN ItemsOf(SubSeq(cor.stack.cells, 1, cor.stack.depth))
         \cup ItemsOf(cor.other)
         \cup gc_mark_item(cor.map)
         \cup UNION {ItemsOf([j \in 1..Len(cor.frames[i].locals) |->
                                 cor.frames[i].locals[j].val])
                       : i \in 1..Len(cor.frames)}

gc_refs(s, node) ==
    IF node.k = "vec" THEN gc_mark_vec(s, node.id)
    ELSE IF node.k = "map" THEN gc_mark_map(s, node.id)
    ELSE gc_mark_cor(s, node.id)

RECURSIVE gc_marked(_, _)
gc_marked(s, marked) ==
    LET more == marked \cup UNION {gc_refs(s, node) : node \in marked}
    IN IF more = marked THEN marked ELSE gc_marked(s, more)

\* the literals of the bytecode (vm->code.cells[i].item)
CodeItems(cells) == UNION {gc_mark_item(cells[i].item) : i \in 1..Len(cells)}

gc_roots(s) ==
    (IF s.scope_core # NULL THEN {Node("map", s.scope_core)} ELSE {})
      \cup (IF s.scope_global # NULL THEN {Node("map", s.scope_global)} ELSE {})
      \cup {Node("cor", s.routines[i]) : i \in 1..Len(s.routines)}
      \cup CodeItems(code(s))

sweep(pool, kind, marked, zero) ==
    LET dead == {i \in 1..Len(pool.used) : pool.used[i] /\ Node(kind, i) \notin marked}
    IN [pool EXCEPT
          !.used = [i \in 1..Len(pool.used) |-> pool.used[i] /\ i \notin dead],
          !.obj = [i \in 1..Len(pool.used) |-> IF i \in dead THEN zero ELSE pool.obj[i]],
          !.extant = @ - Cardinality(dead)]

\* gc_mark_vec and gc_mark_map visit the meta value of the container
\* before they test and set the container's own mark: when the chain of
\* meta values from node comes back to a container it has passed, the
\* mutual recursion with gc_mark_item never reaches a test that stops it
RECURSIVE gc_meta_unbounded(_, _, _)
gc_meta_unbounded(s, node, seen) ==
    LET meta == IF node.k = "vec" THEN s.vecs.obj[node.id].meta
                ELSE IF node.k = "map" THEN s.maps.obj[node.id].meta
                ELSE nil
        next == IF meta.type \in {"VECTOR", "MAP"} THEN gc_mark_item(meta) ELSE {}
    IN /\ next # {}
       /\ \/ next \subseteq (seen \cup {node})
          \/ gc_meta_unbounded(s, CHOOSE n \in next : TRUE, seen \cup {node})

gc(s) ==
    LET sweeps(marked) ==
            IF \E node \in marked : gc_meta_unbounded(s, node, {})
            THEN Undefined(s)
            ELSE [s EXCEPT !.vecs = sweep(s.vecs, "vec", marked, vec0),
                           !.maps = sweep(s.maps, "map", marked, map0),
                           !.cors = sweep(s.cors, "cor", marked, cor0),
                           !.gcs = @ + 1]
    IN sweeps(gc_marked(s, gc_roots(s)))

\* reset(): drop the per-run state and collect
reset(s) ==
    gc([s EXCEPT !.scope_global = NULL, !.routines = <<>>, !.routine = NULL,
                 !.cache = <<>>])


(***************************************************************************)
(* Truth, equality and order of values                                     *)
(***************************************************************************)
truth(s, a) ==
    CASE a.type = "INTEGER" -> a.n # 0
      [] a.type = "STRING" -> a.s # ""
      [] a.type = "BOOLEAN" -> a.n = 1
      [] a.type = "VECTOR" -> Len(s.vecs.obj[a.n].items) > 0
      [] a.type = "MAP" -> Len(s.maps.obj[a.n].keys) > 0
      [] a.type \in {"SUBROUTINE", "COROUTINE", "CALLBACK", "USERDATA"} -> TRUE
      [] OTHER -> FALSE

\* equal() below its meta_get branches: the built-in comparison.  The
\* branches that call a handler are in op_eq, which runs the nested loop of
\* method(); an element that carries a meta value is compared built-in here.
RECURSIVE equal(_, _, _)
equal(s, a, b) ==
    IF a.type # b.type THEN FALSE
    ELSE CASE a.type = "INTEGER" -> a.n = b.n
           [] a.type = "STRING" -> a.s = b.s
           [] a.type = "BOOLEAN" -> a.n = b.n
           [] a.type = "VECTOR" ->
                \/ a.n = b.n
                \/ LET x == s.vecs.obj[a.n].items
                       y == s.vecs.obj[b.n].items
                   IN Len(x) = Len(y) /\ \A i \in 1..Len(x) : equal(s, x[i], y[i])
           [] a.type = "MAP" ->
                \/ a.n = b.n
                \/ LET x == s.maps.obj[a.n]
                       y == s.maps.obj[b.n]
                   IN /\ Len(x.keys) = Len(y.keys)
                      /\ \A i \in 1..Len(x.keys) :
                            equal(s, x.keys[i], y.keys[i]) /\ equal(s, x.vals[i], y.vals[i])
           [] a.type = "SUBROUTINE" -> a.n = b.n
           [] a.type = "COROUTINE" -> a.n = b.n
           [] a.type = "NIL" -> TRUE
           [] OTHER -> FALSE

less(s, a, b) ==
    IF a.type # b.type THEN FALSE
    ELSE CASE a.type = "INTEGER" -> a.n < b.n
           [] a.type = "STRING" -> a.s # b.s /\ strcmp(a.s, b.s) < 0
           [] a.type = "VECTOR" -> Len(s.vecs.obj[a.n].items) < Len(s.vecs.obj[b.n].items)
           [] a.type = "MAP" -> Len(s.maps.obj[a.n].keys) < Len(s.maps.obj[b.n].keys)
           [] OTHER -> FALSE

(***************************************************************************)
(* Vectors and maps.  Indices returned by the lower-bound searches are     *)
(* 0-based as in C.                                                        *)
(***************************************************************************)
RECURSIVE lb_linear(_, _, _, _)
lb_linear(s, items, key, i) ==
    IF i < Len(items) /\ less(s, items[i + 1], key)
    THEN lb_linear(s, items, key, i + 1) ELSE i

RECURSIVE lb_binary(_, _, _, _, _)
lb_binary(s, items, key, lower, upper) ==
    IF lower > upper THEN lower
    ELSE LET i == (lower + upper) \div 2
         IN IF equal(s, items[i + 1], key) THEN i
            ELSE IF less(s, items[i + 1], key)
                 THEN lb_binary(s, items, key, i + 1, upper)
                 ELSE lb_binary(s, items, key, lower, i - 1)

vec_lower_bound(s, items, key) ==
    IF Len(items) = 0 THEN 0
    ELSE IF Len(items) < 16 THEN lb_linear(s, items, key, 0)
    ELSE lb_binary(s, items, key, 0, Len(items) - 1)

map_lower_bound(s, m, key) == vec_lower_bound(s, s.maps.obj[m].keys, key)

\* map_ref: the 1-based position of key in the map, 0 for a NULL cell
map_ref(s, m, key) ==
    LET keys == s.maps.obj[m].keys
        at(i) == IF i < Len(keys) /\ equal(s, keys[i + 1], key) THEN i + 1 ELSE 0
    IN at(map_lower_bound(s, m, key))

map_clr(s, m, key) ==
    LET clr(p) == IF Failed(s) \/ p = 0 THEN s
                  ELSE [s EXCEPT !.maps.obj[m].keys = SeqDel(@, p),
                                 !.maps.obj[m].vals = SeqDel(@, p)]
    IN clr(map_ref(s, m, key))

map_set(s, m, key, val) ==
    IF Failed(s) THEN s
    ELSE IF val.type = "NIL" THEN map_clr(s, m, key)
    ELSE LET keys == s.maps.obj[m].keys
             put(i) == IF i < Len(keys) /\ equal(s, keys[i + 1], key)
                       THEN [s EXCEPT !.maps.obj[m].vals[i + 1] = val]
                       ELSE [s EXCEPT !.maps.obj[m].keys = SeqIns(@, i + 1, key),
                                      !.maps.obj[m].vals = SeqIns(@, i + 1, val)]
         IN put(map_lower_bound(s, m, key))

(***************************************************************************)
(* Operand stack of the running coroutine.  cells keeps what was written   *)
(* above depth, as the C array does; a cell never written is zero (NIL).   *)
(***************************************************************************)
Cor(s) == s.cors.obj[s.routine]

mark_base(c) == IF Len(c.marks) > 0 THEN c.marks[Len(c.marks)] ELSE 0

\* stack_ref: cell at a 0-based index
stack_ref(c, index) ==
    IF index >= 0 /\ index < Len(c.stack.cells) THEN c.stack.cells[index + 1] ELSE nil

depth(s) == Cor(s).stack.depth - mark_base(Cor(s))

item(s, i) == stack_ref(Cor(s), mark_base(Cor(s)) + i)

stack_put(st, x) ==
    [cells |-> IF st.depth < Len(st.cells)
               THEN [st.cells EXCEPT ![st.depth + 1] = x]
               ELSE Append(st.cells, x),
     depth |-> st.depth + 1]

\* push onto coroutine c (assert(depth < STACK) is compiled out: overflow
\* writes past the array)
push_to(s, c, x) ==
    IF Failed(s) THEN s
    ELSE IF s.cors.obj[c].stack.depth >= STACK \/ s.cors.obj[c].stack.depth < 0
    THEN Undefined(s)
    ELSE [s EXCEPT !.cors.obj[c].stack = stack_put(@, x)]

push(s, x) == push_to(s, s.routine, x)

top(s) == stack_ref(Cor(s), Cor(s).stack.depth - 1)

\* pop: the popped value is top(s)
pop(s) ==
    IF Failed(s) THEN s
    ELSE IF Cor(s).stack.depth <= 0 THEN Undefined(s)
    ELSE [s EXCEPT !.cors.obj[s.routine].stack.depth = @ - 1]

opush(s, x) ==
    IF Failed(s) THEN s
    ELSE IF Len(Cor(s).other) >= STACK THEN Undefined(s)
    ELSE [s EXCEPT !.cors.obj[s.routine].other = Append(@, x)]

otop(s) == LET o == Cor(s).other IN IF Len(o) > 0 THEN o[Len(o)] ELSE nil

opop(s) ==
    IF Failed(s) THEN s
    ELSE IF Len(Cor(s).other) = 0 THEN Undefined(s)
    ELSE [s EXCEPT !.cors.obj[s.routine].other = SubSeq(@, 1, Len(@) - 1)]

\* the cell of the instruction being executed (ip was already incremented)
literal(s) == code(s)[Cor(s).ip].item
literal_int(s) == IF literal(s).type = "INTEGER" THEN literal(s).n ELSE 0
cache_slot(s) == code(s)[Cor(s).ip].cache


(***************************************************************************)
(* Text of a value as op_print writes it (tmptext)                         *)
(***************************************************************************)
tmptext(a) ==
    CASE a.type = "STRING" -> a.s
      [] a.type = "NIL" -> "nil"
      [] a.type = "INTEGER" -> ToString(a.n)
      [] a.type = "BOOLEAN" -> IF a.n = 1 THEN "true" ELSE "false"
      [] a.type = "SUBROUTINE" -> "subroutine(" \o ToString(a.n) \o ")"
      [] OTHER -> a.type

(***************************************************************************)
(* Name lookup: current frame, enclosing frames on the call stack, global  *)
(* scope, core scope.  A lookup yields found/val; ub flags a read of a     *)
(* path that no PID instruction has filled.                                *)
(***************************************************************************)
Hit(v) == [found |-> TRUE, val |-> v, ub |-> FALSE]
Miss == [found |-> FALSE, val |-> nil, ub |-> FALSE]

\* first slot of a frame's locals holding key, 0 if none
local_slot(frame, key) ==
    LET S == {i \in 1..Len(frame.locals) : frame.locals[i].key = key}
    IN IF S = {} THEN 0 ELSE CHOOSE i \in S : \A j \in S : i <= j

local(s, key) ==
    LET cor == Cor(s)
        frame == cor.frames[Len(cor.frames)]
    IN IF Len(cor.frames) = 0 THEN Miss
       ELSE IF local_slot(frame, key) = 0 THEN Miss
       ELSE Hit(frame.locals[local_slot(frame, key)].val)

\* variant: the nearest older frame that holds the name, whatever its
\* subroutine
uplocal_walk_dyn(cor, pids, index, key) ==
    LET S == {f \in 1..index : local_slot(cor.frames[f], key) # 0}
        near(f) == Hit(cor.frames[f].locals[local_slot(cor.frames[f], key)].val)
    IN IF S = {} THEN Miss ELSE near(CHOOSE f \in S : \A g \in S : g <= f)

\* the walk of uplocal() from frame index (0-based) downwards
RECURSIVE uplocal_walk(_, _, _, _)
uplocal_walk(cor, pids, index, key) ==
    IF ~(Len(pids) > 1 /\ index > 0) THEN Miss
    ELSE LET uframe == cor.frames[index]
             pid == uframe.path[1]
             slot == local_slot(uframe, key)
         IN IF Len(uframe.path) = 0 THEN [Miss EXCEPT !.ub = TRUE]
            ELSE IF (\E i \in 2..Len(pids) : pid = pids[i]) /\ slot # 0
                 THEN Hit(uframe.locals[slot].val)
                 ELSE uplocal_walk(cor, pids, index - 1, key)

\* variant: no lookup in enclosing frames
uplocal_none(s, key) == Miss

uplocal(s, key) ==
    LET cor == Cor(s)
    IN IF Len(cor.frames) < 2 THEN Miss
       ELSE uplocal_walk(cor, cor.frames[Len(cor.frames)].path, Len(cor.frames) - 1, key)

scope_ref(s, m, key) ==
    LET at(p) == IF p = 0 THEN Miss ELSE Hit(s.maps.obj[m].vals[p])
    IN IF m = NULL THEN Miss ELSE at(map_ref(s, m, key))

find(s, key) ==
    LET in_global(g) == IF g.found THEN g ELSE scope_ref(s, s.scope_core, key)
        up(u) == IF u.found \/ u.ub THEN u ELSE in_global(scope_ref(s, s.scope_global, key))
        here(l) == IF l.found THEN l ELSE up(uplocal(s, key.s))
    IN here(local(s, key.s))

assign(s, key, val) ==
    IF Failed(s) THEN s
    ELSE LET cor == Cor(s)
             d == Len(cor.frames)
         IN IF cor.map.type # "MAP" /\ d > 0
            THEN LET slot == local_slot(cor.frames[d], key.s)
                 IN IF slot # 0
                    THEN [s EXCEPT !.cors.obj[s.routine].frames[d].locals[slot].val = val]
                    ELSE IF Len(cor.frames[d].locals) >= LOCALS
                    THEN ensure_fail(s, "max locals per frame")
                    ELSE [s EXCEPT !.cors.obj[s.routine].frames[d].locals =
                                       Append(@, [key |-> key.s, val |-> val])]
            ELSE IF cor.map.type = "MAP" THEN map_set(s, cor.map.n, key, val)
            ELSE IF s.scope_global = NULL THEN Undefined(s)
            ELSE map_set(s, s.scope_global, key, val)

(***************************************************************************)
(* Marks, frames and calls                                                 *)
(***************************************************************************)
\* variant: a MARK that also collects
op_mark_gc(s) ==
    IF Failed(s) THEN s
    ELSE IF Len(Cor(s).marks) >= STACK THEN Undefined(s)
    ELSE gc([s EXCEPT !.cors.obj[s.routine].marks = Append(@, Cor(s).stack.depth)])

op_mark(s) ==
    IF Failed(s) THEN s
    ELSE IF Len(Cor(s).marks) >= STACK THEN Undefined(s)
    ELSE [s EXCEPT !.cors.obj[s.routine].marks = Append(@, Cor(s).stack.depth)]

RECURSIVE push_nils(_, _)
push_nils(s, req_depth) ==
    IF Failed(s) \/ req_depth <= Cor(s).stack.depth THEN s
    ELSE push_nils(push(s, nil), req_depth)

\* variant: a limit that truncates but never pads
limit_nopad(s, count) ==
    IF Failed(s) THEN s
    ELSE IF Len(Cor(s).marks) = 0 THEN Undefined(s)
    ELSE LET old_depth == mark_base(Cor(s))
             s1 == [s EXCEPT !.cors.obj[s.routine].marks = SubSeq(@, 1, Len(@) - 1)]
             req_depth == old_depth + count
         IN IF count >= 0 /\ req_depth < Cor(s1).stack.depth
            THEN [s1 EXCEPT !.cors.obj[s.routine].stack.depth = req_depth]
            ELSE s1

limit(s, count) ==
    IF Failed(s) THEN s
    ELSE IF Len(Cor(s).marks) = 0 THEN Undefined(s)
    ELSE LET old_depth == mark_base(Cor(s))
             s1 == [s EXCEPT !.cors.obj[s.routine].marks = SubSeq(@, 1, Len(@) - 1)]
             req_depth == old_depth + count
         IN IF count < 0 THEN s1
            ELSE IF req_depth < Cor(s1).stack.depth
            THEN [s1 EXCEPT !.cors.obj[s.routine].stack.depth = req_depth]
            ELSE push_nils(s1, req_depth)

op_limit(s) == limit(s, literal_int(s))

op_clean(s) ==
    IF Failed(s) THEN s
    ELSE [s EXCEPT !.cors.obj[s.routine].stack.depth = @ - depth(s)]

arrive(s, ip) ==
    IF Failed(s) THEN s
    ELSE LET cor == Cor(s)
         IN IF Len(cor.frames) >= STACK THEN Undefined(s)
            ELSE [s EXCEPT !.cors.obj[s.routine] =
                     [cor EXCEPT !.frames = Append(@, [loops |-> Len(cor.loops),
                                                       marks |-> Len(cor.marks),
                                                       ip |-> cor.ip,
                                                       map |-> cor.map,
                                                       locals |-> <<>>,
                                                       path |-> <<>>]),
                                 !.map = nil,
                                 !.ip = ip]]

\* depart: a frame recorded with more marks or loops than the coroutine
\* now has would expose cells above the depth, which the model does not keep
depart(s) ==
    IF Failed(s) THEN s
    ELSE LET cor == Cor(s)
             frame == cor.frames[Len(cor.frames)]
         IN IF Len(cor.frames) = 0 THEN Undefined(s)
            ELSE IF frame.marks > Len(cor.marks) \/ frame.loops > Len(cor.loops)
            THEN OutOfModel(s)
            ELSE [s EXCEPT !.cors.obj[s.routine] =
                     [cor EXCEPT !.frames = SubSeq(@, 1, Len(@) - 1),
                                 !.ip = frame.ip,
                                 !.marks = SubSeq(@, 1, frame.marks),
                                 !.loops = SubSeq(@, 1, frame.loops),
                                 !.map = frame.map]]


(***************************************************************************)
(* Coroutines: vm.routines is the resume chain, vm.routine its top         *)
(***************************************************************************)
\* variant: popping the last coroutine leaves it running
routines_pop_last(s) ==
    IF Failed(s) THEN s
    ELSE IF Len(s.routines) = 0 THEN ensure_fail(s, "vec_pop underflow")
    ELSE IF Len(s.routines) = 1 THEN [s EXCEPT !.routines = <<>>]
    ELSE [s EXCEPT !.routines = SubSeq(@, 1, Len(@) - 1),
                   !.routine = s.routines[Len(s.routines) - 1]]

\* vec_pop(&vm->routines) followed by vm->routine = vec_top(&vm->routines)
routines_pop(s) ==
    IF Failed(s) THEN s
    ELSE IF Len(s.routines) = 0 THEN ensure_fail(s, "vec_pop underflow")
    ELSE IF Len(s.routines) = 1
    THEN ensure_fail([s EXCEPT !.routines = <<>>], "vec_top underflow")
    ELSE [s EXCEPT !.routines = SubSeq(@, 1, Len(@) - 1),
                   !.routine = s.routines[Len(s.routines) - 1]]

\* push onto the running coroutine the cells from..to-1 of coroutine c
RECURSIVE push_from(_, _, _, _)
push_from(s, c, from, to) ==
    IF Failed(s) \/ from >= to THEN s
    ELSE push_from(push(s, stack_ref(s.cors.obj[c], from)), c, from + 1, to)

op_coroutine(s) ==
    IF Failed(s) THEN s
    ELSE LET cor == cor_allot(s)
             caller == s.routine
         IN IF cor = 0 THEN OutOfModel(s)
            ELSE LET s0 == [s EXCEPT !.cors = pool_allot_index(@, cor, cor0)]
                 IN IF depth(s0) = 0 THEN ensure_fail(s0, "coroutine missing subroutine")
                    ELSE IF Len(Cor(s0).marks) = 0 THEN Undefined(s0)
                    ELSE IF item(s0, 0).type # "SUBROUTINE"
                    THEN ensure_fail(s0, "coroutine missing subroutine")
                    ELSE LET ip == item(s0, 0).n
                             s1 == [s0 EXCEPT !.routines = Append(@, cor),
                                              !.routine = cor,
                                              !.cors.obj[cor].state = COR_RUNNING]
                             s2 == op_mark(arrive(s1, ip))
                             s3 == IF Failed(s2) THEN s2
                                   ELSE [s2 EXCEPT !.cors.obj[cor].state = COR_SUSPENDED]
                             s4 == op_clean(routines_pop(s3))
                         IN push(s4, coroutine(cor))

op_resume(s) ==
    IF Failed(s) THEN s
    ELSE IF depth(s) = 0 THEN ensure_fail(s, "resume missing coroutine")
    ELSE IF Len(Cor(s).marks) = 0 THEN Undefined(s)
    ELSE IF item(s, 0).type # "COROUTINE" THEN ensure_fail(s, "resume missing coroutine")
    ELSE LET cor == item(s, 0).n
             items == depth(s)
             caller == s.routine
             cdepth == Cor(s).stack.depth
         IN IF s.cors.obj[cor].state = COR_DEAD
            THEN push([s EXCEPT !.cors.obj[caller].stack.depth = @ - items], nil)
            ELSE LET s1 == [s EXCEPT !.cors.obj[cor].state = COR_RUNNING,
                                     !.routines = Append(@, cor),
                                     !.routine = cor]
                     s2 == push_from(s1, caller, cdepth - items + 1, cdepth)
                 IN IF Failed(s2) THEN s2
                    ELSE [s2 EXCEPT !.cors.obj[caller].stack.depth = @ - items]

\* variant: a yield that copies the values but leaves them on the yielder
op_yield_keep(s) ==
    IF Failed(s) THEN s
    ELSE LET items == depth(s)
             caller == s.routine
             cdepth == Cor(s).stack.depth
             s1 == routines_pop([s EXCEPT !.cors.obj[caller].state = COR_SUSPENDED])
         IN push_from(s1, caller, cdepth - items, cdepth)

op_yield(s) ==
    IF Failed(s) THEN s
    ELSE LET items == depth(s)
             caller == s.routine
             cdepth == Cor(s).stack.depth
             s1 == routines_pop([s EXCEPT !.cors.obj[caller].state = COR_SUSPENDED])
             s2 == push_from(s1, caller, cdepth - items, cdepth)
         IN IF Failed(s2) THEN s2
            ELSE [s2 EXCEPT !.cors.obj[caller].stack.depth = @ - items]

op_return(s) ==
    IF Failed(s) THEN s
    ELSE LET cor == s.routine
             s1 == depart(s)
         IN IF Failed(s1) THEN s1
            ELSE IF s1.cors.obj[cor].ip = 0
            THEN op_yield([s1 EXCEPT !.cors.obj[cor].state = COR_DEAD])
            ELSE s1

(***************************************************************************)
(* Library and host callbacks                                              *)
(***************************************************************************)
\* The conversion of an inum (int64_t) to the int parameter of vec_cell and
\* vec_get keeps the low bits.  The widths are scaled: an int has IntBits
\* bits here where the build has 32, and 2 ^ IntBits in a listing stands for
\* the literal 4294967296 of the script.
to_int(n) == ((n + 2 ^ (IntBits - 1)) % (2 ^ IntBits)) - 2 ^ (IntBits - 1)

\* get() as the successor state with the fetched value on top of the stack
push_get(s, src, key) ==
    IF Failed(s) THEN s
    ELSE IF src.type = "VECTOR" /\ key.type = "INTEGER"
    THEN LET items == s.vecs.obj[src.n].items
             index == IF to_int(key.n) < 0 THEN Len(items) + to_int(key.n) ELSE to_int(key.n)
         IN IF index >= 0 /\ index < Len(items) THEN push(s, items[index + 1])
            ELSE ensure_fail(s, "vec_cell out of bounds")
    ELSE IF src.type = "MAP"
    THEN LET p == map_ref(s, src.n, key)
         IN push(s, IF p = 0 THEN nil ELSE s.maps.obj[src.n].vals[p])
    ELSE ensure_fail(s, "cannot get")

set(s, dst, key, val) ==
    IF Failed(s) THEN s
    ELSE IF dst.type = "VECTOR" /\ key.type = "INTEGER"
    THEN LET items == s.vecs.obj[dst.n].items
             index == IF to_int(key.n) < 0 THEN Len(items) + to_int(key.n) ELSE to_int(key.n)
         IN IF key.n = Len(items)
            THEN [s EXCEPT !.vecs.obj[dst.n].items = Append(@, val)]
            ELSE IF index >= 0 /\ index < Len(items)
            THEN [s EXCEPT !.vecs.obj[dst.n].items[index + 1] = val]
            ELSE ensure_fail(s, "vec_cell out of bounds")
    ELSE IF dst.type = "MAP" THEN map_set(s, dst.n, key, val)
    ELSE ensure_fail(s, "cannot set")

RECURSIVE print_line(_, _, _)
print_line(c, from, to) ==
    IF from >= to THEN <<>>
    ELSE <<tmptext(stack_ref(c, from))>> \o print_line(c, from + 1, to)

op_print(s) ==
    IF Failed(s) \/ depth(s) = 0 THEN s
    ELSE [s EXCEPT !.out = Append(@, print_line(Cor(s), Cor(s).stack.depth - depth(s),
                                                Cor(s).stack.depth))]

op_assert(s) ==
    IF Failed(s) THEN s
    ELSE IF depth(s) = 0 THEN ensure_fail(s, "assert")
    ELSE IF Cor(s).stack.depth <= 0 THEN Undefined(s)
    ELSE IF ~truth(s, top(s)) THEN ensure_fail(s, "assert")
    ELSE s

op_meta_set(s) ==
    LET meta == top(s)
        s1 == pop(s)
        obj == top(s1)
        s2 == pop(s1)
    IN IF Failed(s2) THEN s2
       ELSE IF obj.type = "VECTOR" THEN [s2 EXCEPT !.vecs.obj[obj.n].meta = meta]
       ELSE IF obj.type = "MAP" THEN [s2 EXCEPT !.maps.obj[obj.n].meta = meta]
       ELSE ensure_fail(s2, "cannot set meta")

\* lib.collect is gc itself; the host callback hcollect calls rela_collect
rela_collect(s) == IF Failed(s) THEN s ELSE gc(s)

\* rela_map_set: the value handed to set() is read from the key argument
rela_map_set(s, m, key, val) == set(s, m, key, key)

\* rela_map_get as the successor state with the result on top of the stack
\* (push(get()), rela_pop by the API, rela_push by the caller)
rela_map_get(s, m, key) == push_get(s, m, key)

\* the host callback hset(m, k, v): v = rela_pop, k = rela_pop, m = rela_pop,
\* rela_map_set(m, k, v), rela_push(rela_map_get(m, k))
hset(s) ==
    LET set_get(s3, m, key, val) ==
            IF Failed(s3) THEN s3
            ELSE rela_map_get(rela_map_set(s3, m, key, val), m, key)
        pop_m(s2, key, val) == set_get(pop(s2), top(s2), key, val)
        pop_key(s1, val) == pop_m(pop(s1), top(s1), val)
    IN pop_key(pop(s), top(s))

callback_apply(s, f) ==
    CASE f = "print" -> op_print(s)
      [] f = "coroutine" -> op_coroutine(s)
      [] f = "resume" -> op_resume(s)
      [] f = "yield" -> op_yield(s)
      [] f = "setmeta" -> op_meta_set(s)
      [] f = "assert" -> op_assert(s)
      [] f = "collect" -> IF Failed(s) THEN s ELSE gc(s)
      [] f = "hcollect" -> rela_collect(s)
      [] f = "hset" -> hset(s)
      [] OTHER -> OutOfModel(s)

call(s, x) ==
    IF Failed(s) THEN s
    ELSE IF x.type = "CALLBACK" THEN callback_apply(s, x.s)
    ELSE IF x.type # "SUBROUTINE" THEN ensure_fail(s, "invalid function")
    ELSE LET args == depth(s)
             s1 == op_mark(arrive(s, x.n))
         IN IF Failed(s1) THEN s1
            ELSE [s1 EXCEPT !.cors.obj[s.routine].marks[Len(Cor(s1).marks)] = @ - args]

op_call(s) == call(pop(s), top(s))


(***************************************************************************)
(* Field access                                                            *)
(***************************************************************************)
\* a read of item(vm, i) needs a mark to take its base from
item_or_nil(s, cond, i) == IF cond THEN item(s, i) ELSE nil
NoBase(s, cond) == cond /\ Len(Cor(s).marks) = 0

op_get(s) ==
    IF Failed(s) THEN s
    ELSE IF Cor(s).stack.depth < 2 THEN Undefined(s)
    ELSE LET d == Cor(s).stack.depth
             s1 == push_get(s, stack_ref(Cor(s), d - 2), stack_ref(Cor(s), d - 1))
         IN IF Failed(s1) THEN s1
            ELSE pop([s EXCEPT !.cors.obj[s.routine].stack.cells[d - 1] = top(s1)])

op_set(s) ==
    LET key == top(s)
        s1 == pop(s)
        dst == top(s1)
        s2 == pop(s1)
    IN IF Failed(s2) THEN s2
       ELSE IF NoBase(s2, depth(s2) # 0) THEN Undefined(s2)
       ELSE set(s2, dst, key, item_or_nil(s2, depth(s2) # 0, literal_int(s2)))

op_gname(s) == push_get(pop(s), top(s), literal(s))

op_assign(s) ==
    LET key == top(s)
        s1 == pop(s)
        index == literal_int(s)
    IN IF Failed(s1) THEN s1
       ELSE IF NoBase(s1, depth(s1) > index) THEN Undefined(s1)
       ELSE assign(s1, key, item_or_nil(s1, depth(s1) > index, index))

op_assignp(s) == assign(pop(s), literal(s), top(s))

op_assignl(s) ==
    IF Failed(s) THEN s
    ELSE IF NoBase(s, depth(s) # 0) THEN Undefined(s)
    ELSE assign(s, literal(s), item_or_nil(s, depth(s) # 0, 0))

push_found(s, key) ==
    LET found(r) == IF r.ub THEN Undefined(s)
                    ELSE IF ~r.found THEN ensure_fail(s, "unknown name: " \o key.s)
                    ELSE push(s, r.val)
    IN IF Failed(s) THEN s ELSE found(find(s, key))

op_fname(s) == push_found(s, literal(s))

op_find(s) == push_found(pop(s), top(s))

op_cfunc(s) ==
    LET slot == cache_slot(s) + 1
        cached == s.cache[slot]
        resolved(r) ==
            IF r.ub THEN Undefined(s)
            ELSE IF ~r.found THEN ensure_fail(s, "unknown name: " \o literal(s).s)
            ELSE call([s EXCEPT !.cache[slot] = r.val], r.val)
    IN IF Failed(s) THEN s
       ELSE IF cached.type \in {"SUBROUTINE", "CALLBACK"} THEN call(s, cached)
       ELSE resolved(find(s, literal(s)))

(***************************************************************************)
(* Plain instructions                                                      *)
(***************************************************************************)
op_drop(s) == pop(s)
op_lit(s) == push(s, literal(s))
op_copy(s) == IF ~Failed(s) /\ Cor(s).stack.depth <= 0 THEN Undefined(s) ELSE push(s, top(s))
op_shunt(s) == opush(pop(s), top(s))
op_shift(s) == push(opop(s), otop(s))
op_nil(s) == push(s, nil)
op_true(s) == push(s, boolean(TRUE))
op_false(s) == push(s, boolean(FALSE))
op_global(s) == push(s, map(s.scope_global))

op_jmp(s) == IF Failed(s) THEN s ELSE [s EXCEPT !.cors.obj[s.routine].ip = literal_int(s)]

op_jfalse(s) ==
    IF Failed(s) THEN s
    ELSE IF Cor(s).stack.depth <= 0 THEN Undefined(s)
    ELSE IF ~truth(s, top(s)) THEN op_jmp(s) ELSE s

op_jtrue(s) ==
    IF Failed(s) THEN s
    ELSE IF Cor(s).stack.depth <= 0 THEN Undefined(s)
    ELSE IF truth(s, top(s)) THEN op_jmp(s) ELSE s

op_pid(s) ==
    IF Failed(s) THEN s
    ELSE IF Len(Cor(s).frames) = 0 THEN Undefined(s)
    ELSE [s EXCEPT !.cors.obj[s.routine].frames[Len(Cor(s).frames)].path =
                       Append(@, literal(s).n)]

op_loop(s) ==
    IF Failed(s) THEN s
    ELSE IF Len(Cor(s).loops) + 3 > STACK THEN Undefined(s)
    ELSE [s EXCEPT !.cors.obj[s.routine].loops =
                       @ \o <<Len(Cor(s).marks), literal_int(s), 0>>]

op_unloop(s) ==
    IF Failed(s) THEN s
    ELSE LET loops == Cor(s).loops
         IN IF Len(loops) < 3 THEN Undefined(s)
            ELSE LET s1 == [s EXCEPT !.cors.obj[s.routine].loops =
                                         SubSeq(@, 1, Len(@) - 3)]
                 IN IF loops[Len(loops) - 2] = Len(Cor(s).marks) THEN s1
                    ELSE ensure_fail(s1, "mark stack mismatch (unloop)")

\* op_break/op_continue: jump, cut the marks back to the loop's and clean
loop_exit(s, back) ==
    IF Failed(s) THEN s
    ELSE LET loops == Cor(s).loops
         IN IF Len(loops) < 3 THEN Undefined(s)
            ELSE IF loops[Len(loops) - 2] > Len(Cor(s).marks) THEN OutOfModel(s)
            ELSE op_clean([s EXCEPT !.cors.obj[s.routine].ip = loops[Len(loops) - 1] - back,
                                    !.cors.obj[s.routine].marks =
                                        SubSeq(@, 1, loops[Len(loops) - 2])])

\* op_break that marks the stack where it stands instead of cleaning it
op_break_mark(s) ==
    IF Failed(s) THEN s
    ELSE LET loops == Cor(s).loops
         IN IF Len(loops) < 3 \/ loops[Len(loops) - 2] < 1 THEN Undefined(s)
            ELSE IF loops[Len(loops) - 2] > Len(Cor(s).marks) THEN OutOfModel(s)
            ELSE op_mark([s EXCEPT !.cors.obj[s.routine].ip = loops[Len(loops) - 1],
                                   !.cors.obj[s.routine].marks =
                                       SubSeq(@, 1, loops[Len(loops) - 2] - 1)])

op_break(s) == loop_exit(s, 0)
op_continue(s) == loop_exit(s, 1)

op_map(s) ==
    IF Failed(s) THEN s
    ELSE IF map_allot(s) = 0 THEN OutOfModel(s)
    ELSE LET m == map_allot(s)
             s1 == opush(s, Cor(s).map)
         IN IF Failed(s1) THEN s1
            ELSE [s1 EXCEPT !.maps = pool_allot_index(@, m, map0),
                            !.cors.obj[s.routine].map = map(m)]

op_unmap(s) ==
    LET s1 == push(s, Cor(s).map)
        s2 == opop(s1)
    IN IF Failed(s2) THEN s2
       ELSE [s2 EXCEPT !.cors.obj[s.routine].map = otop(s1)]


(***************************************************************************)
(* Arithmetic, comparison, vector literals and the fused update            *)
(***************************************************************************)
\* stack_cell: the cell at an index, negative indices counted from the top
stack_cell(s, index) ==
    stack_ref(Cor(s), IF index < 0 THEN Cor(s).stack.depth + index ELSE index)

\* the store `*stack_cell(vm, index) = x` (the range assert is compiled out)
stack_cell_put(s, index, x) ==
    IF Failed(s) THEN s
    ELSE LET i == IF index < 0 THEN Cor(s).stack.depth + index ELSE index
         IN IF i < 0 \/ i >= Cor(s).stack.depth THEN Undefined(s)
            ELSE [s EXCEPT !.cors.obj[s.routine].stack.cells[i + 1] = x]

\* add()/multiply(): no object of this model carries a meta value and no
\* FLOAT occurs, so anything but two integers gives nil
add(s, a, b) ==
    IF a.type = "INTEGER" /\ b.type = "INTEGER" THEN integer(a.n + b.n) ELSE nil

multiply(s, a, b) ==
    IF a.type = "INTEGER" /\ b.type = "INTEGER" THEN integer(a.n * b.n) ELSE nil

op_add(s) == op_drop(stack_cell_put(s, -2, add(s, stack_cell(s, -2), stack_cell(s, -1))))

op_add_lit(s) == stack_cell_put(s, -1, add(s, stack_cell(s, -1), literal(s)))

op_mul_lit(s) == stack_cell_put(s, -1, multiply(s, stack_cell(s, -1), literal(s)))

op_lt(s) ==
    op_drop(stack_cell_put(s, -2, boolean(less(s, stack_cell(s, -2), stack_cell(s, -1)))))

op_vector(s) ==
    IF Failed(s) THEN s
    ELSE IF vec_allot(s) = 0 THEN OutOfModel(s)
    ELSE LET v == vec_allot(s)
             s1 == opush(s, vector(v))
         IN IF Failed(s1) THEN s1
            ELSE [s1 EXCEPT !.vecs = pool_allot_index(@, v, vec0)]

op_vpush(s) ==
    IF Failed(s) THEN s
    ELSE IF otop(s).type # "VECTOR" \/ NoBase(s, depth(s) > 0) THEN Undefined(s)
    ELSE op_clean([s EXCEPT !.vecs.obj[otop(s).n].items =
                                @ \o [i \in 1..depth(s) |-> item(s, i - 1)]])

\* the frame (1-based) in which uplocal() finds key, 0 if none
RECURSIVE uplocal_frame(_, _, _, _)
uplocal_frame(cor, pids, index, key) ==
    IF ~(Len(pids) > 1 /\ index > 0) THEN 0
    ELSE LET uframe == cor.frames[index]
         IN IF Len(uframe.path) = 0 THEN 0
            ELSE IF (\E i \in 2..Len(pids) : uframe.path[1] = pids[i])
                    /\ local_slot(uframe, key) # 0
                 THEN index
                 ELSE uplocal_frame(cor, pids, index - 1, key)

\* the cell find() returns a pointer to: a local slot of a frame, or a
\* slot of the vals vector of the global or the core map
find_cell(s, key) ==
    LET cor == Cor(s)
        d == Len(cor.frames)
        up == uplocal_frame(cor, cor.frames[d].path, d - 1, key.s)
    IN IF local(s, key.s).found
       THEN [at |-> "frame", f |-> d, m |-> NULL, i |-> local_slot(cor.frames[d], key.s)]
       ELSE IF uplocal(s, key.s).found
       THEN [at |-> "frame", f |-> up, m |-> NULL, i |-> local_slot(cor.frames[up], key.s)]
       ELSE IF scope_ref(s, s.scope_global, key).found
       THEN [at |-> "map", f |-> 0, m |-> s.scope_global,
             i |-> map_ref(s, s.scope_global, key)]
       ELSE [at |-> "map", f |-> 0, m |-> s.scope_core, i |-> map_ref(s, s.scope_core, key)]

\* the store `*val = x` through such a pointer
cell_put(s, cell, x) ==
    IF Failed(s) THEN s
    ELSE IF cell.at = "frame"
    THEN [s EXCEPT !.cors.obj[s.routine].frames[cell.f].locals[cell.i].val = x]
    ELSE [s EXCEPT !.maps.obj[cell.m].vals[cell.i] = x]

\* the tick() inside op_update: compile() fuses an UPDATE only in front of
\* an ADD_LIT or a MUL_LIT
update_tick(s) ==
    IF Failed(s) THEN s
    ELSE LET ip == Cor(s).ip
             s1 == [s EXCEPT !.cors.obj[s.routine].ip = ip + 1]
         IN IF ip < 0 \/ ip >= Len(code(s)) THEN Undefined(s)
            ELSE IF code(s)[ip + 1].op = "ADD_LIT" THEN op_add_lit(s1)
            ELSE IF code(s)[ip + 1].op = "MUL_LIT" THEN op_mul_lit(s1)
            ELSE OutOfModel(s)

op_update(s) ==
    LET key == literal(s)
        stored(s1) == cell_put(pop(s1), find_cell(s, key), top(s1))
        updated(r) ==
            IF r.ub THEN Undefined(s)
            ELSE IF ~r.found THEN ensure_fail(s, "unknown name: " \o key.s)
            ELSE stored(update_tick(push(s, r.val)))
    IN IF Failed(s) THEN s ELSE updated(find(s, key))


(***************************************************************************)
(* FOR.  Iterating a subroutine or a coroutine runs a nested interpreter   *)
(* loop inside op_for; vm.nest records each such loop under way (its kind, *)
(* the coroutine and frame depth it waits for, and op_for's locals), and   *)
(* the code after the loop runs when the loop's condition ends it.         *)
(***************************************************************************)
loops_top(s) == Cor(s).loops[Len(Cor(s).loops)]
loops_exit(s) == Cor(s).loops[Len(Cor(s).loops) - 1]

for_exit(s) ==
    IF Failed(s) THEN s
    ELSE IF Len(Cor(s).loops) < 2 THEN Undefined(s)
    ELSE [s EXCEPT !.cors.obj[s.routine].ip = loops_exit(s)]

\* the two assign() calls of each branch: key and value, or value alone
for_assign(s, names, a, b) ==
    IF Len(names) = 0 THEN s
    ELSE assign(IF Len(names) > 1 THEN assign(s, names[1], a) ELSE s,
                names[IF Len(names) > 1 THEN 2 ELSE 1], b)

\* the same with results taken in order (idx++): a single variable gets
\* the first result
for_results(s, names, r0, r1) ==
    for_assign(s, names, r0, IF Len(names) > 1 THEN r1 ELSE r0)

\* the last statement of op_for
for_step(s, step) ==
    IF Failed(s) THEN s
    ELSE IF Len(Cor(s).loops) < 1 THEN Undefined(s)
    ELSE IF step + 1 > MaxStep THEN OutOfModel(s)
    ELSE [s EXCEPT !.cors.obj[s.routine].loops[Len(Cor(s).loops)] = step + 1]

\* method(): up to and including call()
RECURSIVE push_all(_, _)
push_all(s, argv) ==
    IF Len(argv) = 0 THEN s ELSE push_all(push(s, Head(argv)), Tail(argv))

method_enter(s, func, argv, n) ==
    LET called(s1) == IF Failed(s1) \/ func.type # "SUBROUTINE" THEN s1
                      ELSE [s1 EXCEPT !.nest = Append(@, n)]
    IN IF Failed(s) THEN s
       ELSE IF func.type \notin {"SUBROUTINE", "CALLBACK"}
       THEN ensure_fail(s, "invalid method")
       ELSE called(call(push_all(op_mark(s), argv), func))

\* method(): after its loop; the results are read before limit(vm, 0)
method_leave(s) == limit(s, 0)

for_sub_tail(s, n) ==
    IF Failed(s) THEN s
    ELSE IF NoBase(s, depth(s) > 0) THEN Undefined(s)
    ELSE LET retv0 == item_or_nil(s, 0 < depth(s), 0)
             retv1 == item_or_nil(s, 1 < depth(s), 1)
             s1 == method_leave(s)
         IN for_step(IF retv0.type = "NIL" THEN for_exit(s1)
                     ELSE for_results(s1, n.vars, retv0, retv1), n.step)

for_cor_tail(s, n) ==
    IF Failed(s) THEN s
    ELSE IF NoBase(s, depth(s) > 0) THEN Undefined(s)
    ELSE LET s1 == IF depth(s) = 0 \/ item(s, 0).type = "NIL" THEN for_exit(s)
                   ELSE for_results(s, n.vars, item_or_nil(s, depth(s) > 0, 0),
                                    item_or_nil(s, depth(s) > 1, 1))
         IN for_step(limit(s1, 0), n.step)

op_for(s) ==
    IF Failed(s) THEN s
    ELSE IF Cor(s).stack.depth <= 0 \/ Len(Cor(s).loops) < 2 THEN Undefined(s)
    ELSE LET names == s.vecs.obj[literal(s).n].items
             iter == top(s)
             step == loops_top(s)
             n == [kind |-> "method", cor |-> s.routine, frame |-> Len(Cor(s).frames),
                   step |-> step, vars |-> names]
         IN CASE iter.type = "INTEGER" ->
                   for_step(IF step = iter.n THEN for_exit(s)
                            ELSE for_assign(s, names, integer(step), integer(step)), step)
              [] iter.type = "VECTOR" ->
                   for_step(IF step >= Len(s.vecs.obj[iter.n].items) THEN for_exit(s)
                            ELSE for_assign(s, names, integer(step),
                                            s.vecs.obj[iter.n].items[step + 1]), step)
              [] iter.type = "MAP" ->
                   for_step(IF step >= Len(s.maps.obj[iter.n].keys) THEN for_exit(s)
                            ELSE for_assign(s, names, s.maps.obj[iter.n].keys[step + 1],
                                            s.maps.obj[iter.n].vals[step + 1]), step)
              [] iter.type \in {"SUBROUTINE", "CALLBACK"} ->
                   LET s1 == method_enter(s, iter, <<integer(step)>>, n)
                   IN IF iter.type = "CALLBACK" THEN for_sub_tail(s1, n) ELSE s1
              [] iter.type = "COROUTINE" ->
                   LET s1 == op_resume(push(push(op_mark(s), iter), integer(step)))
                   IN IF Failed(s1) THEN s1
                      ELSE [s1 EXCEPT !.nest = Append(@, [kind |-> "for_cor", cor |-> iter.n,
                                                          frame |-> 0, step |-> step,
                                                          vars |-> names])]
              [] OTHER ->
                   for_step([s EXCEPT !.cors.obj[s.routine].ip = step], step)

(***************************************************************************)
(* EQ.  equal() asks the meta value of a left operand that is a vector or  *)
(* a map for a handler named ==: a meta map is searched with map_get, a    *)
(* callable meta is called through method() with the name and its first    *)
(* result is the handler (nil declines); the handler is called through     *)
(* method() with both operands and the truth of its first result is the    *)
(* answer.  Each method() over a subroutine is a nested interpreter loop   *)
(* (kinds "eq_meta" and "eq" in vm.nest); op_eq stores the answer when the *)
(* loop is over.  No USERDATA exists in this model.                        *)
(***************************************************************************)
meta_of(s, a) ==
    IF a.type = "VECTOR" THEN s.vecs.obj[a.n].meta
    ELSE IF a.type = "MAP" THEN s.maps.obj[a.n].meta
    ELSE nil

\* the last two statements of op_eq
eq_done(s, flag) == op_drop(stack_cell_put(s, -2, boolean(flag)))

eq_nest(s, kind) ==
    [kind |-> kind, cor |-> s.routine, frame |-> Len(Cor(s).frames),
     step |-> 0, vars |-> <<>>]

\* method(func, 2, argv, 1, retv) and truth(retv[0])
eq_tail(s, n) ==
    IF Failed(s) THEN s
    ELSE IF s.routine # n.cor THEN OutOfModel(s)
    ELSE IF NoBase(s, depth(s) > 0) THEN Undefined(s)
    ELSE LET retv0 == item_or_nil(s, 0 < depth(s), 0)
         IN eq_done(method_leave(s), truth(s, retv0))

eq_call(s, func) ==
    LET entered(s1) == IF func.type = "CALLBACK" THEN eq_tail(s1, eq_nest(s, "eq")) ELSE s1
    IN entered(method_enter(s, func, <<stack_cell(s, -2), stack_cell(s, -1)>>,
                            eq_nest(s, "eq")))

\* meta_get over a callable meta, after its method(): the first result is
\* the handler
eq_meta_tail(s, n) ==
    IF Failed(s) THEN s
    ELSE IF s.routine # n.cor THEN OutOfModel(s)
    ELSE IF NoBase(s, depth(s) > 0) THEN Undefined(s)
    ELSE LET handler(s1, func) ==
                 IF Failed(s1) THEN s1
                 ELSE IF func.type # "NIL" THEN eq_call(s1, func)
                 ELSE eq_done(s1, equal(s1, stack_cell(s1, -2), stack_cell(s1, -1)))
         IN handler(method_leave(s), item_or_nil(s, 0 < depth(s), 0))

op_eq(s) ==
    IF Failed(s) THEN s
    ELSE IF Cor(s).stack.depth < 2 THEN Undefined(s)
    ELSE LET a == stack_cell(s, -2)
             b == stack_cell(s, -1)
             meta == meta_of(s, a)
         IN IF a.type # b.type THEN eq_done(s, FALSE)
            ELSE IF meta.type = "MAP" /\ map_ref(s, meta.n, string("==")) # 0
            THEN eq_call(s, s.maps.obj[meta.n].vals[map_ref(s, meta.n, string("=="))])
            ELSE IF meta.type \in {"SUBROUTINE", "CALLBACK"}
            THEN LET asked(s1) == IF meta.type = "CALLBACK"
                                  THEN eq_meta_tail(s1, eq_nest(s, "eq_meta")) ELSE s1
                 IN asked(method_enter(s, meta, <<string("==")>>, eq_nest(s, "eq_meta")))
            ELSE eq_done(s, equal(s, a, b))

(***************************************************************************)
(* tick(): fetch, advance ip, dispatch.  stopped records a false return    *)
(* (OP_STOP).                                                              *)
(***************************************************************************)
dispatch(s, op) ==
    CASE op = "STOP" -> [s EXCEPT !.stopped = TRUE]
      [] op = "JMP" -> op_jmp(s)
      [] op = "FOR" -> op_for(s)
      [] op = "PID" -> op_pid(s)
      [] op = "LIT" -> op_lit(s)
      [] op = "MARK" -> op_mark(s)
      [] op = "LIMIT" -> op_limit(s)
      [] op = "CLEAN" -> op_clean(s)
      [] op = "RETURN" -> op_return(s)
      [] op = "FNAME" -> op_fname(s)
      [] op = "CFUNC" -> op_cfunc(s)
      [] op = "ASSIGNL" -> op_assignl(s)
      [] op = "ASSIGNP" -> op_assignp(s)
      [] op = "ASSIGN" -> op_assign(s)
      [] op = "CALL" -> op_call(s)
      [] op = "DROP" -> op_drop(s)
      [] op = "FALSE" -> op_false(s)
      [] op = "TRUE" -> op_true(s)
      [] op = "NIL" -> op_nil(s)
      [] op = "GNAME" -> op_gname(s)
      [] op = "FIND" -> op_find(s)
      [] op = "SET" -> op_set(s)
      [] op = "GET" -> op_get(s)
      [] op = "JFALSE" -> op_jfalse(s)
      [] op = "JTRUE" -> op_jtrue(s)
      [] op = "LOOP" -> op_loop(s)
      [] op = "UNLOOP" -> op_unloop(s)
      [] op = "BREAK" -> op_break(s)
      [] op = "CONTINUE" -> op_continue(s)
      [] op = "COPY" -> op_copy(s)
      [] op = "SHUNT" -> op_shunt(s)
      [] op = "SHIFT" -> op_shift(s)
      [] op = "GLOBAL" -> op_global(s)
      [] op = "MAP" -> op_map(s)
      [] op = "UNMAP" -> op_unmap(s)
      [] op = "ADD" -> op_add(s)
      [] op = "ADD_LIT" -> op_add_lit(s)
      [] op = "MUL_LIT" -> op_mul_lit(s)
      [] op = "EQ" -> op_eq(s)
      [] op = "LT" -> op_lt(s)
      [] op = "VECTOR" -> op_vector(s)
      [] op = "VPUSH" -> op_vpush(s)
      [] op = "UPDATE" -> op_update(s)
      [] OTHER -> OutOfModel(s)

\* the jump that process() emits after the left operand of && and of or:
\* JFALSE or JTRUE followed by DROP (an if statement emits the same pair)
AndOr(s) ==
    /\ Cor(s).ip >= 0 /\ Cor(s).ip + 1 < Len(code(s))
    /\ code(s)[Cor(s).ip + 1].op \in {"JTRUE", "JFALSE"}
    /\ code(s)[Cor(s).ip + 2].op = "DROP"

\* instrumentation: when the MARK that opens a for statement has executed,
\* note the depth the stack of the coroutine had before it; the same at the
\* jump after the left operand of && and of or
for_enter(s1, s) ==
    IF (\E f \in s.fors : f.mark = Cor(s).ip) \/ AndOr(s)
    THEN [s1 EXCEPT !.forbase =
              {e \in @ : ~(e.cor = s.routine /\ e.frame = Len(Cor(s).frames)
                            /\ e.mark = Cor(s).ip)}
                  \cup {[cor |-> s.routine, frame |-> Len(Cor(s).frames),
                         mark |-> Cor(s).ip, depth |-> Cor(s).stack.depth]}]
    ELSE s1

tick(s) ==
    LET ip == Cor(s).ip
    IN IF ip < 0 \/ ip >= Len(code(s)) THEN Undefined(s)
       ELSE for_enter(dispatch([s EXCEPT !.cors.obj[s.routine].ip = ip + 1],
                               code(s)[ip + 1].op), s)

\* does the nested loop n stop before its next tick?
nest_done(s, n) ==
    \/ s.stopped
    \/ n.kind = "for_cor" /\ s.routine # n.cor
    \/ /\ n.kind \in {"method", "eq", "eq_meta"}
       /\ s.routine = n.cor /\ n.frame >= Len(s.cors.obj[n.cor].frames)

\* leave every nested loop whose condition has ended it, innermost first,
\* each time completing the op_for (and so the tick) that was running it
RECURSIVE unwind(_)
unwind(s) ==
    IF Failed(s) \/ Len(s.nest) = 0 THEN s
    ELSE LET n == s.nest[Len(s.nest)]
             s1 == [s EXCEPT !.nest = SubSeq(@, 1, Len(@) - 1), !.stopped = FALSE]
         IN IF ~nest_done(s, n) THEN s
            ELSE unwind(CASE n.kind = "for_cor" -> for_cor_tail(s1, n)
                          [] n.kind = "eq" -> eq_tail(s1, n)
                          [] n.kind = "eq_meta" -> eq_meta_tail(s1, n)
                          [] OTHER -> for_sub_tail(s1, n))


(***************************************************************************)
(* Host API: rela_create_ex, rela_run_ex, rela_destroy                     *)
(***************************************************************************)
\* module lists a host may pass to rela_run_ex (each program is one module,
\* index 0; index 1 is not a module)
ModLists == {<<0>>, <<0, 0>>, <<1>>}

\* vm->modules.entries
entries == <<0>>

\* the functions of the funcs table placed in lib (.lib = true), in opcode
\* order, that this model implements
LibNames == <<"print", "coroutine", "resume", "yield", "setmeta", "assert", "collect">>

\* the host's registry
Registry == <<"hcollect", "hset">>

\* calloc(sizeof(rela_vm), 1)
vm0(p) ==
    [prog |-> p, code |-> <<>>, routines |-> <<>>, routine |-> NULL,
     scope_core |-> NULL, scope_global |-> NULL,
     maps |-> Pool(NMaps, map0), vecs |-> Pool(NVecs, vec0), cors |-> Pool(NCors, cor0),
     cache |-> <<>>, err |-> NoErr, jmp |-> FALSE, ub |-> FALSE, bound |-> FALSE,
     nest |-> <<>>, stopped |-> FALSE, modlist |-> <<>>, mod |-> 0,
     out |-> <<>>, gcs |-> 0, starts |-> <<>>, hist |-> <<>>,
     fors |-> {}, forbase |-> {}, nodes |-> 0]

RECURSIVE set_callbacks(_, _, _, _)
set_callbacks(s, m, names, i) ==
    IF i > Len(names) THEN s
    ELSE set_callbacks(map_set(s, m, string(names[i]), callback(names[i])), m, names, i + 1)

\* the name vectors compile() leaves in the vec pool for the FOR literals
RECURSIVE compile_vecs(_, _, _)
compile_vecs(s, vs, i) ==
    IF i > Len(vs) THEN s
    ELSE compile_vecs([s EXCEPT !.vecs = pool_allot_index(@, i, [vec0 EXCEPT !.items = vs[i]])],
                      vs, i + 1)

destroy(s) ==
    LET r == reset([s EXCEPT !.scope_core = NULL, !.code = <<>>])
    IN [r EXCEPT !.maps = Pool(NMaps, map0), !.vecs = Pool(NVecs, vec0),
                 !.cors = Pool(NCors, cor0)]

\* source(): parse() allots the nodes of the syntax tree with node_allot
\* and process() compiles them.  The parser is not modelled: a program of
\* CompileErrors stops with that error after allotting that many nodes, any
\* other program compiles to its listing (its nodes are counted as one
\* block; rela_create_ex frees them after the last module).
source(s, p) ==
    IF Failed(s) THEN s
    ELSE IF p \in DOMAIN CompileErrors
    THEN ensure_fail([s EXCEPT !.nodes = CompileErrors[p].nodes], CompileErrors[p].err)
    ELSE [s EXCEPT !.nodes = 1]

\* each stage is an operator over the state the stage before it has left
rela_create_ex(p) ==
    LET \* the setjmp handler, or the rest of the function after source()
        finish(s7, prog) ==
            IF s7.jmp THEN destroy([s7 EXCEPT !.jmp = FALSE])
            ELSE gc([limit(compile_vecs(s7, prog.vecs, 1), 0)
                        EXCEPT !.code = prog.code, !.nodes = 0,
                               !.fors = ForLoops(prog.code),
                               !.routines = <<>>, !.routine = NULL])
        \* the compile-time coroutine, op_mark and source()
        sourced(s5, cor) ==
            finish(source(op_mark([s5 EXCEPT !.cors = pool_allot_index(@, cor, cor0),
                                              !.routines = <<cor>>, !.routine = cor]), p),
                     Programs[p])
        allot_cor(s5) == sourced(s5, cor_allot(s5))
        \* lib and the callbacks of the funcs table and of the registry
        scopes(s1, core, lib) ==
            LET s2 == map_set([s1 EXCEPT !.maps = pool_allot_index(@, lib, map0)],
                              core, string("lib"), map(lib))
                s3 == set_callbacks(s2, lib, LibNames, 1)
                s4 == map_set(s3, core, string("print"), callback("print"))
            IN allot_cor(set_callbacks(s4, core, Registry, 1))
        allot_lib(s1, core) == scopes(s1, core, map_allot(s1))
        \* scope_core
        allot_core(s0, core) ==
            allot_lib([s0 EXCEPT !.maps = pool_allot_index(@, core, map0),
                                 !.scope_core = core], core)
        create(s0) == allot_core(s0, map_allot(s0))
    IN create(vm0(p))

\* what a script can read when a run starts
StartState(s) ==
    [core |-> s.maps.obj[s.scope_core],
     lib |-> s.maps.obj[scope_ref(s, s.scope_core, string("lib")).val.n],
     global |-> s.maps.obj[s.scope_global],
     routines |-> Len(s.routines),
     main |-> [s.cors.obj[s.routine] EXCEPT !.ip = 0, !.stack.cells = <<>>]]

\* the loop head of rela_run_ex for module number s.mod
module_enter(s) ==
    IF Failed(s) THEN s
    ELSE IF ~(s.modlist[s.mod + 1] < Len(entries)) THEN ensure_fail(s, "invalid module")
    ELSE [s EXCEPT !.cors.obj[s.routine].ip = entries[s.modlist[s.mod + 1] + 1]]

\* rela_run_ex returning status: reset, and the host's record of the run
\* (module list, stdout, status, rela_error)
run_return(s, status) ==
    LET r == reset([s EXCEPT !.jmp = FALSE, !.nest = <<>>, !.stopped = FALSE])
    IN [r EXCEPT !.hist = Append(@, [modlist |-> s.modlist, out |-> s.out, rc |-> status,
                                     err |-> s.err])]

\* after a tick (or the loop head): longjmp to the setjmp handler, next
\* module, normal return, or carry on
run_continue(s) ==
    IF s.ub \/ s.bound THEN s
    ELSE IF s.jmp THEN run_return(s, 1)
    ELSE IF ~s.stopped THEN s
    ELSE IF s.mod + 1 < Len(s.modlist)
    THEN LET s1 == module_enter([s EXCEPT !.mod = @ + 1, !.stopped = FALSE])
         IN IF s1.jmp THEN run_return(s1, 1) ELSE s1
    ELSE run_return(s, 0)

\* rela_run_ex up to its first tick
run_enter(s, ml) ==
    LET s0 == [s EXCEPT !.cache = [i \in 1..cfuncs(s) |-> nil],
                        !.modlist = ml, !.mod = 0, !.out = <<>>]
        cor == cor_allot(s0)
        s1 == [s0 EXCEPT !.cors = pool_allot_index(@, cor, cor0),
                         !.routines = <<cor>>, !.routine = cor]
        global == map_allot(s1)
        s2 == [s1 EXCEPT !.maps = pool_allot_index(@, global, map0),
                         !.scope_global = global]
    IN run_continue(module_enter(
           [s2 EXCEPT !.starts = Append(@, [modlist |-> ml, main |-> cor,
                                            state |-> StartState(s2)])]))

(***************************************************************************)
(* The state machine                                                       *)
(***************************************************************************)
Init ==
    /\ vm \in {vm0(p) : p \in DOMAIN Programs}
    /\ pc = "new"
    /\ rc = -1
    /\ runs = 0

Create ==
    /\ pc = "new"
    /\ vm' = rela_create_ex(vm.prog)
    /\ pc' = IF vm'.err # NoErr THEN "null" ELSE "idle"
    /\ UNCHANGED <<rc, runs>>

Run ==
    /\ pc = "idle"
    /\ runs < MaxRuns
    /\ \E ml \in ModLists :
         /\ vm' = run_enter(vm, ml)
         /\ pc' = IF vm'.routine = NULL THEN "idle" ELSE "run"
         /\ rc' = IF vm'.routine = NULL THEN 1 ELSE rc
    /\ runs' = runs + 1

Step(s) == run_continue(unwind(tick(s)))

Tick ==
    /\ pc = "run"
    /\ ~vm.ub
    /\ vm' = Step(vm)
    /\ ~vm'.bound
    /\ pc' = IF vm'.routine = NULL THEN "idle" ELSE "run"
    /\ rc' = IF vm'.routine = NULL THEN vm'.hist[Len(vm'.hist)].rc ELSE rc
    /\ UNCHANGED runs

Destroy ==
    /\ pc = "idle"
    /\ vm' = destroy(vm)
    /\ pc' = "destroyed"
    /\ UNCHANGED <<rc, runs>>

Next == Create \/ Run \/ Tick \/ Destroy

Spec == Init /\ [][Next]_vars


(***************************************************************************)
(* Vocabulary of the properties                                            *)
(***************************************************************************)
\* the instruction the next tick executes
NextOp(s) ==
    IF s.routine # NULL /\ Cor(s).ip >= 0 /\ Cor(s).ip < Len(code(s))
    THEN code(s)[Cor(s).ip + 1].op ELSE "NONE"

\* the state a handler sees: ip already advanced
Fetched(s) == [s EXCEPT !.cors.obj[s.routine].ip = @ + 1]

\* the value a CALL or CFUNC is about to call, or the callback a FOR is
\* about to call (nil for any other instruction)
Callee(s) ==
    IF NextOp(s) = "CALL" THEN top(s)
    ELSE IF NextOp(s) = "CFUNC"
    THEN LET cached == s.cache[cache_slot(Fetched(s)) + 1]
         IN IF cached.type \in {"SUBROUTINE", "CALLBACK"} THEN cached
            ELSE find(Fetched(s), literal(Fetched(s))).val
    ELSE IF NextOp(s) = "FOR" /\ top(s).type = "CALLBACK" THEN top(s)
    ELSE nil

\* the state on entry to the callee (CALL has popped the function value,
\* FOR has marked the stack and pushed the step)
AtCall(s) ==
    IF NextOp(s) = "CALL" THEN pop(Fetched(s))
    ELSE IF NextOp(s) = "FOR"
    THEN push(op_mark(Fetched(s)), integer(loops_top(Fetched(s))))
    ELSE Fetched(s)

\* the next tick calls library or host function f
Invokes(s, f) == pc = "run" /\ ~s.ub /\ Callee(s) = callback(f)

\* the sub-frame of coroutine c: the cells from its top mark to its depth
SubFrame(s, c) ==
    LET cor == s.cors.obj[c]
    IN SubSeq(cor.stack.cells, mark_base(cor) + 1, cor.stack.depth)

Front(q) == SubSeq(q, 1, Len(q) - 1)
Last(q) == q[Len(q)]

\* the coroutine rela_run_ex allotted for the run under way
Main(s) == Last(s.starts).main

\* the coroutine argument of a resume about to be called
ResumeOf(s) == item(AtCall(s), 0)

\* a coroutine whose body has returned: allotted, off the chain, frameless
Completed(s, c) ==
    /\ s.cors.used[c]
    /\ Len(s.cors.obj[c].frames) = 0
    /\ \A i \in 1..Len(s.routines) : s.routines[i] # c

(***************************************************************************)
(* Properties                                                              *)
(***************************************************************************)
\* C1: any two runs of the same module list start from the same
\* script-visible state: the core scope and the lib map hold what
\* rela_create put there, the global scope is fresh and empty, and the main
\* coroutine has empty stacks and no frames.
C1_same_start ==
    \A i, j \in 1..Len(vm.starts) :
        vm.starts[i].modlist = vm.starts[j].modlist
            => vm.starts[i].state = vm.starts[j].state

\* C2: a fatal error raised at any point of a run makes rela_run return a
\* non-zero status with the routines chain empty, the global scope dropped
\* and one collection run, and the run that follows starts from the state
\* the first run started from.
C2_failed_run_resets ==
    [][/\ (pc = "run" /\ ~vm.ub /\ unwind(tick(vm)).jmp)
            => (pc' = "idle" /\ rc' # 0)
       /\ (Len(vm'.hist) = Len(vm.hist) + 1 /\ Last(vm'.hist).rc # 0)
            => /\ rc' # 0
               /\ vm'.routines = <<>>
               /\ vm'.routine = NULL
               /\ vm'.scope_global = NULL
               /\ vm'.gcs = vm.gcs + 1
       /\ (Len(vm'.starts) = Len(vm.starts) + 1 /\ Len(vm.hist) > 0
              /\ Last(vm.hist).rc # 0)
            => Last(vm'.starts).state = vm'.starts[1].state]_vars


\* C3: the collector runs only at the end of rela_create, at the end of a
\* run (success or failure), in rela_destroy, and during a run only in a
\* tick that calls lib.collect or a host callback calling rela_collect; it
\* runs once each time.
C3_gc_only_explicit ==
    [][vm'.gcs # vm.gcs =>
          /\ vm'.gcs = vm.gcs + 1
          /\ \/ pc = "new" /\ pc' \in {"idle", "null"}
             \/ pc = "idle" /\ pc' = "destroyed"
             \/ Len(vm'.hist) = Len(vm.hist) + 1
             \/ /\ pc = "run" /\ pc' = "run"
                /\ Invokes(vm, "collect") \/ Invokes(vm, "hcollect")]_vars

\* a collection requested from inside a run has happened
C3_witness == pc = "run" /\ vm.gcs > Len(vm.hist) + 1

\* C4: a coroutine other than main that executes a RETURN leaving it with no
\* call frame is DEAD after that step (which includes the implicit yield).
C4_dead_after_return ==
    [][(/\ pc = "run" /\ pc' = "run" /\ ~vm.ub
        /\ NextOp(vm) = "RETURN"
        /\ Len(Cor(vm).frames) = 1
        /\ vm.routine # Main(vm))
          => vm'.cors.obj[vm.routine].state = COR_DEAD]_vars

\* C5: resume of a coroutine whose body has completed leaves exactly nil in
\* the resumer's sub-frame, leaves the routines chain unchanged and changes
\* nothing of that coroutine.
C5_resume_completed ==
    [][(/\ pc' = "run"
        /\ Invokes(vm, "resume")
        /\ depth(AtCall(vm)) > 0
        /\ ResumeOf(vm).type = "COROUTINE"
        /\ Completed(vm, ResumeOf(vm).n))
          => /\ vm'.routines = vm.routines
             /\ SubFrame(vm', vm.routine) = <<nil>>
             /\ vm'.cors.obj[ResumeOf(vm).n] = vm.cors.obj[ResumeOf(vm).n]]_vars

ChainShape(s) ==
    /\ Len(s.routines) > 0
    /\ s.routines[1] = Main(s)
    /\ s.routine = Last(s.routines)

\* C7 as stated: at every instruction boundary of a run the chain is
\* non-empty, starts with main, ends with vm->routine, and every coroutine
\* below the top is SUSPENDED.
C7_waiting_suspended ==
    pc = "run" =>
        /\ ChainShape(vm)
        /\ \A i \in 1..Len(vm.routines) - 1 :
              vm.cors.obj[vm.routines[i]].state = COR_SUSPENDED


\* the next tick is a RETURN of a subroutine called by CALL or CFUNC: not
\* the RETURN that ends a coroutine body, nor one that a FOR is waiting for
PlainReturn ==
    /\ pc = "run" /\ pc' = "run" /\ ~vm.ub
    /\ NextOp(vm) = "RETURN"
    /\ Len(Cor(vm).frames) > 0
    /\ ~(Len(Cor(vm).frames) = 1 /\ vm.routine # Main(vm))
    /\ vm'.nest = vm.nest

\* C8: a CALL of a subroutine enters it with the arguments as its sub-frame
\* and records the caller's ip, mark depth, loop depth and pending map; its
\* RETURN, from whatever point of the body, restores those four and leaves
\* in the caller's sub-frame exactly the values of the return expression
\* list (the callee's sub-frame when RETURN executes), nothing else.
C8_call_return ==
    [][/\ (/\ pc = "run" /\ pc' = "run" /\ ~vm.ub
           /\ NextOp(vm) \in {"CALL", "CFUNC"}
           /\ Callee(vm).type = "SUBROUTINE")
             => LET cor == Cor(vm)
                    cor2 == vm'.cors.obj[vm.routine]
                IN /\ vm'.routine = vm.routine
                   /\ SubFrame(vm', vm.routine) = SubFrame(AtCall(vm), vm.routine)
                   /\ cor2.ip = Callee(vm).n
                   /\ Len(cor2.frames) = Len(cor.frames) + 1
                   /\ Last(cor2.frames).ip = cor.ip + 1
                   /\ Last(cor2.frames).marks = Len(cor.marks)
                   /\ Last(cor2.frames).loops = Len(cor.loops)
                   /\ Last(cor2.frames).map = cor.map
       /\ PlainReturn
             => LET cor == Cor(vm)
                    cor2 == vm'.cors.obj[vm.routine]
                    frame == Last(cor.frames)
                IN /\ vm'.routine = vm.routine
                   /\ cor2.frames = Front(cor.frames)
                   /\ cor2.ip = frame.ip
                   /\ Len(cor2.marks) = frame.marks
                   /\ Len(cor2.loops) = frame.loops
                   /\ cor2.map = frame.map
                   /\ SubFrame(vm', vm.routine) = SubFrame(vm, vm.routine)]_vars

C10_returned_function ==
    \A i \in 1..Len(vm.hist) :
        (vm.prog = "pt7" /\ vm.hist[i].modlist = <<0>>)
            => (vm.hist[i].rc = 0 /\ vm.hist[i].out = <<<<"7">>>>)

\* C10 amended: a nested function resolves the enclosing function's
\* parameter while the enclosing call is still on the call stack (pf calls
\* the nested function before make returns: status 0, prints 7); called
\* after the enclosing call has returned the name is unknown (pt7: non-zero
\* status, message "unknown name: x", nothing printed).
C10_enclosing_frame_live ==
    \A i \in 1..Len(vm.hist) :
        vm.hist[i].modlist = <<0>> =>
            /\ vm.prog = "pf" => (vm.hist[i].rc = 0 /\ vm.hist[i].out = <<<<"7">>>>)
            /\ vm.prog = "pt7" =>
                  (vm.hist[i].rc # 0 /\ vm.hist[i].out = <<>>
                     /\ vm.hist[i].err = "unknown name: x")

\* the nested function found x in the frame of make, still on the stack
C10_witness ==
    /\ vm.prog = "pf"
    /\ Len(vm.hist) > 0
    /\ vm.hist[1] = [modlist |-> <<0>>, out |-> <<<<"7">>>>, rc |-> 0, err |-> NoErr]

\* the binding of a name by the lookup order: the current frame's locals,
\* then the nearest older frame of a lexical ancestor that holds the name,
\* then the global scope, then the core scope
Binding(s, key) ==
    LET cor == Cor(s)
        d == Len(cor.frames)
        Has(f) == \E i \in 1..Len(cor.frames[f].locals) : cor.frames[f].locals[i].key = key.s
        Val(f) == LET i == CHOOSE i \in 1..Len(cor.frames[f].locals) :
                               cor.frames[f].locals[i].key = key.s
                  IN cor.frames[f].locals[i].val
        Anc == {f \in 1..(d - 1) :
                  /\ Len(cor.frames[f].path) > 0
                  /\ \E i \in 2..Len(cor.frames[d].path) :
                        cor.frames[f].path[1] = cor.frames[d].path[i]
                  /\ Has(f)}
        In(m) == m # NULL /\ \E i \in 1..Len(s.maps.obj[m].keys) : s.maps.obj[m].keys[i] = key
        At(m) == s.maps.obj[m].vals[CHOOSE i \in 1..Len(s.maps.obj[m].keys) :
                                        s.maps.obj[m].keys[i] = key]
    IN IF d > 0 /\ Has(d) THEN Hit(Val(d))
       ELSE IF Anc # {} THEN Hit(Val(CHOOSE f \in Anc : \A g \in Anc : g <= f))
       ELSE IF In(s.scope_global) THEN Hit(At(s.scope_global))
       ELSE IF In(s.scope_core) THEN Hit(At(s.scope_core))
       ELSE Miss

\* the name an FNAME, FIND or CFUNC about to execute looks up
LookupKey(s) == IF NextOp(s) = "FIND" THEN top(s) ELSE literal(Fetched(s))

\* C11: every instruction that looks a name up (FNAME, FIND, and CFUNC for
\* the function it calls) uses the first binding in the order current
\* frame, lexical ancestors' frames, global scope, core scope: FNAME and
\* FIND push that value, CFUNC enters that subroutine; when none of the
\* four holds the name the run ends with status non-zero and the error
\* `unknown name`.
C11_lookup_order ==
    [][(/\ pc = "run" /\ ~vm.ub
        /\ NextOp(vm) \in {"FNAME", "FIND", "CFUNC"})
          => LET key == LookupKey(vm)
                 b == Binding(vm, key)
                 cor2 == vm'.cors.obj[vm.routine]
             IN IF ~b.found
                THEN /\ pc' = "idle" /\ rc' # 0
                     /\ Last(vm'.hist).err = "unknown name: " \o key.s
                ELSE /\ NextOp(vm) \in {"FNAME", "FIND"}
                          => /\ vm'.routine = vm.routine
                             /\ stack_ref(cor2, cor2.stack.depth - 1) = b.val
                     /\ (NextOp(vm) = "CFUNC" /\ b.val.type = "SUBROUTINE")
                          => /\ vm'.routine = vm.routine
                             /\ Len(cor2.frames) = Len(Cor(vm).frames) + 1
                             /\ cor2.ip = b.val.n]_vars

\* the next tick is an assignment to a plain name inside a subroutine:
\* one of the assigning instructions, in a frame, with no map literal
\* under construction
PlainAssign(s) ==
    /\ pc = "run" /\ ~s.ub
    /\ NextOp(s) \in {"ASSIGN", "ASSIGNL", "ASSIGNP", "UPDATE"}
    /\ Len(Cor(s).frames) > 0
    /\ Cor(s).map.type # "MAP"

\* the name such an instruction assigns
AssignKey(s) == IF NextOp(s) = "ASSIGN" THEN top(s) ELSE literal(Fetched(s))

\* C12: an assignment to a plain name executed inside a subroutine frame
\* (no map literal under construction), the fused self-update forms
\* included, binds the name in the current frame's locals and changes no
\* map (so neither the global nor the core scope), no other frame of the
\* coroutine and no other coroutine's frames.
C12_assign_local ==
    [][(PlainAssign(vm) /\ pc' = "run")
          => LET cor == Cor(vm)
                 cor2 == vm'.cors.obj[vm.routine]
                 key == AssignKey(vm).s
             IN /\ vm'.routine = vm.routine
                /\ vm'.maps = vm.maps
                /\ Front(cor2.frames) = Front(cor.frames)
                /\ \A c \in 1..NCors : c # vm.routine
                      => vm'.cors.obj[c].frames = vm.cors.obj[c].frames
                /\ local_slot(Last(cor2.frames), key) # 0
                /\ \A i \in 1..Len(Last(cor.frames).locals) :
                      Last(cor.frames).locals[i].key # key
                         => Last(cor2.frames).locals[i] = Last(cor.frames).locals[i]]_vars

\* enum type_t in declaration order: the rank of a value's type
TypeOrder ==
    <<"NIL", "INTEGER", "FLOAT", "STRING", "BOOLEAN", "VECTOR", "MAP", "SUBROUTINE",
      "COROUTINE", "CALLBACK", "USERDATA", "NODE">>
TypeRank(t) == CHOOSE i \in 1..Len(TypeOrder) : TypeOrder[i] = t

\* the total order on values: type rank first, then less() within a type
Precedes(s, a, b) ==
    \/ TypeRank(a.type) < TypeRank(b.type)
    \/ a.type = b.type /\ less(s, a, b)

\* C13: in every map in use, whatever map_set/map_clr calls it has seen and
\* whatever the types of its keys, the keys vector is strictly sorted by the
\* order on values (so no key occurs twice) and keys and vals have the same
\* length.
C13_keys_sorted ==
    \A m \in 1..NMaps :
        vm.maps.used[m] =>
            LET keys == vm.maps.obj[m].keys
            IN /\ Len(keys) = Len(vm.maps.obj[m].vals)
               /\ \A i, j \in 1..Len(keys) : i < j => Precedes(vm, keys[i], keys[j])

\* the operands of a SET about to execute: key on top, the container under
\* it, the value in the sub-frame below both
SetKey(s) == top(s)
SetDst(s) == top(pop(Fetched(s)))
SetVal(s) ==
    LET s2 == pop(pop(Fetched(s)))
    IN item_or_nil(s2, depth(s2) # 0, literal_int(s2))

\* C14: no map in use ever holds nil as a value, and a SET that stores nil
\* under a key of a map leaves the map without that key (so an iteration
\* over it yields no entry for the key).
C14_no_nil_value ==
    [][/\ pc' = "run" =>
            \A m \in 1..NMaps :
                vm'.maps.used[m] =>
                    \A i \in 1..Len(vm'.maps.obj[m].vals) :
                        vm'.maps.obj[m].vals[i].type # "NIL"
       /\ (/\ pc = "run" /\ pc' = "run" /\ ~vm.ub
           /\ NextOp(vm) = "SET" /\ SetDst(vm).type = "MAP"
           /\ SetVal(vm).type = "NIL")
             => \A i \in 1..Len(vm'.maps.obj[SetDst(vm).n].keys) :
                    vm'.maps.obj[SetDst(vm).n].keys[i] # SetKey(vm)]_vars

\* C15: whenever two values of different types are compared (an LT about to
\* execute), exactly one of less(a,b) and less(b,a) holds, less(a,b) is
\* decided by the type rank alone, and that is the boolean the comparison
\* leaves on the stack.
C15_less_types ==
    [][(/\ pc = "run" /\ pc' = "run" /\ ~vm.ub
        /\ NextOp(vm) = "LT"
        /\ stack_cell(Fetched(vm), -2).type # stack_cell(Fetched(vm), -1).type)
          => LET a == stack_cell(Fetched(vm), -2)
                 b == stack_cell(Fetched(vm), -1)
             IN /\ less(vm, a, b) # less(vm, b, a)
                /\ less(vm, a, b) <=> TypeRank(a.type) < TypeRank(b.type)
                /\ top(vm') = boolean(TypeRank(a.type) < TypeRank(b.type))]_vars


(***************************************************************************)
(* The string interner.  A region (string_region_t) is a sequence of cells *)
(* [p, s]: the address calloc returned and the bytes stored there, kept in *)
(* strcmp order.  An argument of strintern is such a pair too; p = 0 is a  *)
(* buffer outside both regions.  The interner is checked on its own, under *)
(* InternSpec: vm holds the two regions, the strings the program still     *)
(* references (roots), and as instrumentation the cells strintern has      *)
(* returned and gc has not freed (live), the last call (last) and whether  *)
(* a collection has run (collected); pc is "compile" until the young       *)
(* region is promoted, "run" afterwards.                                   *)
(***************************************************************************)
NPtrs == 4
Ptrs == 1..NPtrs
Strs == {"a", "b", "c"}

RECURSIVE str_lb(_, _, _, _, _)
str_lb(cells, str, lower, upper, index) ==
    IF lower > upper THEN index
    ELSE LET i == (lower + upper) \div 2
             c == strcmp(cells[i + 1].s, str.s)
         IN IF c = 0 THEN i
            ELSE IF c < 0 THEN str_lb(cells, str, i + 1, upper, i + 1)
            ELSE str_lb(cells, str, lower, i - 1, lower)

str_lower_bound(region, str) ==
    IF Len(region) # 0 THEN str_lb(region, str, 0, Len(region) - 1, 0) ELSE 0

\* strintern without the look-up in the old region
strintern_young(s, str, cpy) ==
    LET index == str_lower_bound(s.stringsA, str)
    IN IF index < Len(s.stringsA) /\ s.stringsA[index + 1].p = str.p
       THEN [vm |-> s, ret |-> str.p]
       ELSE IF index < Len(s.stringsA) /\ strcmp(s.stringsA[index + 1].s, str.s) = 0
       THEN [vm |-> s, ret |-> s.stringsA[index + 1].p]
       ELSE [vm |-> [s EXCEPT !.stringsA =
                         SubSeq(@, 1, index) \o <<[p |-> cpy, s |-> str.s]>>
                             \o SubSeq(@, index + 1, Len(@))],
             ret |-> cpy]

\* cpy is the address calloc returns if the string has to be copied
strintern(s, str, cpy) ==
    LET indexB == str_lower_bound(s.stringsB, str)
    IN IF indexB < Len(s.stringsB) /\ s.stringsB[indexB + 1].p = str.p
       THEN [vm |-> s, ret |-> str.p]
       ELSE IF indexB < Len(s.stringsB) /\ strcmp(s.stringsB[indexB + 1].s, str.s) = 0
       THEN [vm |-> s, ret |-> s.stringsB[indexB + 1].p]
       ELSE LET index == str_lower_bound(s.stringsA, str)
            IN IF index < Len(s.stringsA) /\ s.stringsA[index + 1].p = str.p
               THEN [vm |-> s, ret |-> str.p]
               ELSE IF index < Len(s.stringsA)
                       /\ strcmp(s.stringsA[index + 1].s, str.s) = 0
               THEN [vm |-> s, ret |-> s.stringsA[index + 1].p]
               ELSE [vm |-> [s EXCEPT !.stringsA =
                                 SubSeq(@, 1, index) \o <<[p |-> cpy, s |-> str.s]>>
                                     \o SubSeq(@, index + 1, Len(@))],
                     ret |-> cpy]

\* the young cells gc marks: those a referenced string points at
gc_mark_str(s, str) ==
    LET index == str_lower_bound(s.stringsA, str)
    IN IF index < Len(s.stringsA) /\ s.stringsA[index + 1].p = str.p
       THEN {index + 1} ELSE {}

StrMarks(s) == UNION {gc_mark_str(s, str) : str \in s.roots}

\* the compaction of the young region at the end of gc
RECURSIVE gc_compact(_, _, _)
gc_compact(cells, mark, r) ==
    IF r > Len(cells) THEN <<>>
    ELSE IF r \in mark THEN <<cells[r]>> \o gc_compact(cells, mark, r + 1)
    ELSE gc_compact(cells, mark, r + 1)

RegionCells(region) == {region[i] : i \in 1..Len(region)}
InternCells(s) == RegionCells(s.stringsA) \cup RegionCells(s.stringsB)

gc_strings(s) ==
    LET s1 == [s EXCEPT !.stringsA = gc_compact(@, StrMarks(s), 1),
                        !.collected = TRUE]
    IN [s1 EXCEPT !.live = @ \cap InternCells(s1)]

\* the addresses calloc may return: those not allocated
FreePtrs(s) == Ptrs \ {c.p : c \in InternCells(s)}

\* what strintern may be called with: bytes in a buffer of the caller, or a
\* string obtained from strintern before and not freed since
InternArgs(s) == {[p |-> 0, s |-> str] : str \in Strs} \cup s.live

intern0 ==
    [stringsA |-> <<>>, stringsB |-> <<>>, roots |-> {}, live |-> {},
     last |-> [str |-> [p |-> 0, s |-> "a"], ret |-> 0], collected |-> FALSE]

InternInit ==
    /\ vm = intern0
    /\ pc = "compile"
    /\ rc = -1
    /\ runs = 0

\* strintern(str); keep tells whether the program stores the result in
\* something gc reaches
Intern ==
    /\ \E str \in InternArgs(vm), cpy \in FreePtrs(vm), keep \in BOOLEAN :
        LET r == strintern(vm, str, cpy)
            cell == [p |-> r.ret, s |-> str.s]
        IN vm' = [r.vm EXCEPT !.live = @ \cup {cell},
                              !.roots = IF keep THEN @ \cup {cell} ELSE @,
                              !.last = [str |-> str, ret |-> r.ret]]
    /\ UNCHANGED <<pc, rc, runs>>

\* the program drops its references to a string
InternRelease ==
    /\ \E str \in vm.roots : vm' = [vm EXCEPT !.roots = @ \ {str}]
    /\ UNCHANGED <<pc, rc, runs>>

\* the end of rela_create_ex: the young region becomes the old one, then gc
InternPromote ==
    /\ pc = "compile"
    /\ vm' = gc_strings([vm EXCEPT !.stringsB = vm.stringsA, !.stringsA = <<>>])
    /\ pc' = "run"
    /\ UNCHANGED <<rc, runs>>

\* collect() or rela_collect() at run time
InternCollect ==
    /\ pc = "run"
    /\ vm' = gc_strings(vm)
    /\ UNCHANGED <<pc, rc, runs>>

InternNext == Intern \/ InternRelease \/ InternPromote \/ InternCollect

InternSpec == InternInit /\ [][InternNext]_vars

\* no two cells of a region, and no two cells of different regions, hold
\* the same bytes
InternUnique(s) ==
    /\ \A i, j \in 1..Len(s.stringsA) : i # j => s.stringsA[i].s # s.stringsA[j].s
    /\ \A i, j \in 1..Len(s.stringsB) : i # j => s.stringsB[i].s # s.stringsB[j].s
    /\ \A i \in 1..Len(s.stringsA), j \in 1..Len(s.stringsB) :
           s.stringsA[i].s # s.stringsB[j].s

\* C16: at every point of the VM's life (compiling, after the promotion of
\* the young region, after collections) no string is in both regions or
\* twice in one region; two strings returned by strintern and not freed
\* since are the same pointer if and only if they are byte-equal; and
\* interning any string returns a cell holding its bytes, and interning that
\* result returns it again and changes nothing.
C16_intern ==
    /\ InternUnique(vm)
    /\ \A h1, h2 \in vm.live : (h1.p = h2.p) <=> (h1.s = h2.s)
    /\ \A str \in InternArgs(vm), cpy \in FreePtrs(vm) :
           LET r1 == strintern(vm, str, cpy)
           IN /\ [p |-> r1.ret, s |-> str.s] \in InternCells(r1.vm)
              /\ \A cpy2 \in FreePtrs(r1.vm) :
                     LET r2 == strintern(r1.vm, [p |-> r1.ret, s |-> str.s], cpy2)
                     IN r2.ret = r1.ret /\ r2.vm = r1.vm

\* after the promotion and a collection, with strings in both regions, a
\* string that was already interned has been interned again and came back
\* as the same pointer
C16_witness ==
    /\ pc = "run" /\ vm.collected
    /\ Len(vm.stringsA) > 0 /\ Len(vm.stringsB) > 1
    /\ vm.last.str.p # 0 /\ vm.last.ret = vm.last.str.p
    /\ \E c \in RegionCells(vm.stringsB) : c.p = vm.last.ret


\* the LIMIT that ends the for statement f is the next instruction
ForExit(s, f) ==
    /\ s.routine # NULL
    /\ Cor(s).ip = f.exit + 1
    /\ NextOp(s) = "LIMIT"

\* the depth noted when the running coroutine entered f in its current frame
ForBase(s, f) ==
    {e.depth : e \in {d \in s.forbase : /\ d.cor = s.routine
                                        /\ d.frame = Len(Cor(s).frames)
                                        /\ d.mark = f.mark}}

ForVars(s) == s.vecs.obj[code(s)[Cor(s).ip + 1].item.n].items

\* C18: a FOR over an integer N whose step counter is k enters the block,
\* with the loop variable bound to k, exactly when k < N, and leaves the
\* loop otherwise; so the block runs for k = 0, ..., N-1 and not at all when
\* N <= 0.
C18_for_integer ==
    [][(/\ pc = "run" /\ pc' = "run" /\ ~vm.ub
        /\ NextOp(vm) = "FOR" /\ top(vm).type = "INTEGER"
        /\ ~Failed(vm') /\ vm'.routine = vm.routine)
          => IF loops_top(vm) < top(vm).n
             THEN /\ Cor(vm').ip = Cor(vm).ip + 1
                  /\ Len(ForVars(vm)) > 0 =>
                        find(vm', ForVars(vm)[Len(ForVars(vm))]).val
                            = integer(loops_top(vm))
             ELSE Cor(vm').ip = loops_exit(vm)]_vars


\* the nested loop of a for over a coroutine ends with the next tick
ForCorEnd(s) ==
    /\ pc = "run" /\ ~s.ub
    /\ Len(s.nest) > 0 /\ Last(s.nest).kind = "for_cor"
    /\ ~Failed(tick(s))
    /\ nest_done(tick(s), Last(s.nest))

\* C19: a FOR over a coroutine resumes it (once: each iteration is one FOR);
\* the loop goes on only when that coroutine has yielded or completed, and
\* then enters the block with the first loop variable bound to the first
\* value yielded if there is one and it is not nil, and leaves the loop
\* otherwise.
C19_for_coroutine ==
    [][/\ (/\ pc = "run" /\ pc' = "run" /\ ~vm.ub
           /\ NextOp(vm) = "FOR" /\ top(vm).type = "COROUTINE"
           /\ ~Failed(vm'))
             => /\ vm'.routine = top(vm).n
                /\ Len(vm'.nest) = Len(vm.nest) + 1
       /\ (ForCorEnd(vm) /\ pc' = "run")
             => /\ ~vm'.ub
                /\ tick(vm).cors.obj[Last(vm.nest).cor].state # COR_RUNNING
                /\ IF depth(tick(vm)) > 0 /\ item(tick(vm), 0).type # "NIL"
                   THEN /\ Cor(vm').ip = Cor(tick(vm)).ip
                        /\ Len(Last(vm.nest).vars) > 0 =>
                              find(vm', Last(vm.nest).vars[1]).val = item(tick(vm), 0)
                   ELSE Cor(vm').ip = loops_exit(tick(vm))]_vars


\* what the tail of a for over a function does with the sub-frame t the
\* function left: leave the loop on nil, else bind the first loop variable
\* to the first result and go on with the block; the step is counted
ForOutcome(t, names, step, s2) ==
    LET retv0 == item_or_nil(t, 0 < depth(t), 0)
    IN /\ IF retv0.type = "NIL" THEN Cor(s2).ip = loops_exit(t)
          ELSE /\ Cor(s2).ip = Cor(t).ip
               /\ Len(names) > 0 => find(s2, names[1]).val = retv0
       /\ loops_top(s2) = step + 1

\* the nested loop of a for over a subroutine is running for the executing
\* coroutine, and the next instruction is the RETURN of the frame it called
MethodReturn(s) ==
    /\ Len(s.nest) > 0 /\ Last(s.nest).kind = "method"
    /\ s.routine = Last(s.nest).cor
    /\ Len(Cor(s).frames) = Last(s.nest).frame + 1
    /\ NextOp(s) = "RETURN"

\* C20: a FOR over a subroutine g calls g with the step as its only
\* argument and nothing else happens in that tick; the nested loop goes
\* back to the for exactly in the tick that returns from that frame of g,
\* and then the loop ends if g returned nil and otherwise the block runs
\* with the loop variable bound to g's result.  A FOR over a callback does
\* all this in one tick.
C20_for_function ==
    [][(pc = "run" /\ pc' = "run" /\ ~vm.ub) =>
        /\ (NextOp(vm) = "FOR" /\ top(vm).type = "SUBROUTINE" /\ ~Failed(vm'))
             => /\ vm'.routine = vm.routine
                /\ Len(Cor(vm').frames) = Len(Cor(vm).frames) + 1
                /\ Cor(vm').ip = top(vm).n
                /\ depth(vm') = 1 /\ item(vm', 0) = integer(loops_top(vm))
                /\ Len(vm'.nest) = Len(vm.nest) + 1
                /\ Last(vm'.nest).kind = "method"
                /\ loops_top(vm') = loops_top(vm)
        /\ (Len(vm.nest) > 0 /\ Last(vm.nest).kind = "method" /\ ~Failed(tick(vm)))
             => /\ nest_done(tick(vm), Last(vm.nest)) <=> MethodReturn(vm)
                /\ (MethodReturn(vm) /\ ~Failed(vm')) =>
                      ForOutcome(tick(vm), Last(vm.nest).vars, Last(vm.nest).step, vm')
        /\ (NextOp(vm) = "FOR" /\ top(vm).type = "CALLBACK" /\ ~Failed(vm'))
             => /\ Len(vm'.nest) = Len(vm.nest)
                /\ ForOutcome(call(push(op_mark(Fetched(vm)), integer(loops_top(vm))),
                                   top(vm)),
                              ForVars(vm), loops_top(vm), vm')]_vars


\* C21: a FOR over a map whose step counter is k enters the block exactly
\* when k is below the number of entries, with the loop variables bound to
\* the k-th key and value, and the key it visits comes after the key of
\* the step before in the order on values; the counter advances by one, so
\* each entry is visited once, in ascending key order.
C21_for_map ==
    [][(/\ pc = "run" /\ pc' = "run" /\ ~vm.ub
        /\ NextOp(vm) = "FOR" /\ top(vm).type = "MAP"
        /\ ~Failed(vm') /\ vm'.routine = vm.routine)
          => LET keys == vm.maps.obj[top(vm).n].keys
                 vals == vm.maps.obj[top(vm).n].vals
                 k == loops_top(vm)
                 names == ForVars(vm)
             IN /\ loops_top(vm') = k + 1
                /\ IF k < Len(keys)
                   THEN /\ Cor(vm').ip = Cor(vm).ip + 1
                        /\ Len(names) = 2 =>
                              /\ find(vm', names[1]).val = keys[k + 1]
                              /\ find(vm', names[2]).val = vals[k + 1]
                        /\ Len(names) = 1 => find(vm', names[1]).val = vals[k + 1]
                        /\ k > 0 => Precedes(vm, keys[k], keys[k + 1])
                   ELSE Cor(vm').ip = loops_exit(vm)]_vars


\* the loop a CONTINUE or BREAK about to execute belongs to is a for
InFor(s) == \E f \in s.fors : f.exit = loops_exit(s)

\* C22: a CONTINUE jumps to the JMP that closes the body of the innermost
\* loop, keeps the loop's entry (so the step counter advances at the next
\* FOR, and a while re-evaluates its condition), cuts the marks back to the
\* loop's and discards only what the body put on the stack: in a for the
\* iterable stays on top of the stack, in a while the stack is back at the
\* loop's mark.
C22_continue ==
    [][(/\ pc = "run" /\ pc' = "run" /\ ~vm.ub
        /\ NextOp(vm) = "CONTINUE"
        /\ ~Failed(vm') /\ vm'.routine = vm.routine)
          => LET loops == Cor(vm).loops
                 nmarks == loops[Len(loops) - 2]
                 base == Cor(vm).marks[nmarks]
             IN /\ Cor(vm').ip = loops_exit(vm) - 1
                /\ code(vm)[Cor(vm').ip + 1].op = "JMP"
                /\ Cor(vm').loops = loops
                /\ Cor(vm').marks = SubSeq(Cor(vm).marks, 1, nmarks)
                /\ Cor(vm').stack.depth = IF InFor(vm) THEN base + 1 ELSE base
                /\ InFor(vm) =>
                      Cor(vm').stack.cells[base + 1] = Cor(vm).stack.cells[base + 1]]_vars


(***************************************************************************)
(* The binary operators the parser knows, in the order it tries them       *)
(* (operators[]), and the match of parse(): the first entry whose name is  *)
(* the text at the cursor; a name that ends in a letter needs a space      *)
(* after it, which a whole token has.                                      *)
(***************************************************************************)
operators ==
    <<[name |-> "||", opcode |-> "OR"], [name |-> "or", opcode |-> "OR"],
      [name |-> "&&", opcode |-> "AND"], [name |-> "==", opcode |-> "EQ"],
      [name |-> "!=", opcode |-> "NE"], [name |-> ">=", opcode |-> "GTE"],
      [name |-> ">", opcode |-> "GT"], [name |-> "<=", opcode |-> "LTE"],
      [name |-> "<", opcode |-> "LT"], [name |-> "~", opcode |-> "MATCH"],
      [name |-> "+", opcode |-> "ADD"], [name |-> "-", opcode |-> "SUB"],
      [name |-> "*", opcode |-> "MUL"], [name |-> "/", opcode |-> "DIV"],
      [name |-> "%", opcode |-> "MOD"], [name |-> "...", opcode |-> "UNPACK"]>>

parse_operator(tok) ==
    LET hits == {i \in 1..Len(operators) : operators[i].name = tok}
    IN IF hits = {} THEN "NONE"
       ELSE operators[CHOOSE i \in hits : \A j \in hits : i <= j].opcode

\* the and/or jumps of the running frame whose join is the next instruction
ShortEnd(s) ==
    {e \in s.forbase :
        /\ e.cor = s.routine /\ e.frame = Len(Cor(s).frames)
        /\ code(s)[e.mark + 1].op \in {"JTRUE", "JFALSE"}
        /\ code(s)[e.mark + 1].item.n = Cor(s).ip
        /\ code(s)[e.mark + 1].op = "JFALSE" => s.prog = "pw"}

\* One step of the interpreter around an and/or: at the jump the left
\* operand a is on top; the jump is taken when a decides the result (truthy
\* for or, falsy for &&) and then nothing but the ip changes, so b is not
\* evaluated and a is the value; otherwise the DROP is next, b follows, and
\* at the join the stack is as deep as it was with a alone.  (Program pw has
\* no if statement: each JFALSE of pw belongs to an &&.)
ShortCircuit ==
    (pc = "run" /\ pc' = "run" /\ ~vm.ub /\ ~Failed(vm') /\ vm'.routine # NULL)
      => /\ (AndOr(vm) /\ vm'.routine = vm.routine)
              => LET a == top(vm)
                     op == NextOp(vm)
                     decided == IF op = "JTRUE" THEN truth(vm, a) ELSE ~truth(vm, a)
                 IN /\ Cor(vm').stack = Cor(vm).stack
                    /\ Cor(vm').frames = Cor(vm).frames
                    /\ vm'.out = vm.out
                    /\ Cor(vm').ip = IF decided THEN code(vm)[Cor(vm).ip + 1].item.n
                                     ELSE Cor(vm).ip + 1
         /\ \A e \in ShortEnd(vm') : Cor(vm').stack.depth = e.depth

\* C23: `a or b` yields a without evaluating b when a is truthy and b
\* otherwise, `a and b` yields a without evaluating b when a is falsy and b
\* otherwise, and one value is left for the expression: the parser maps the
\* words or and and to the operators OR and AND, and every step around their
\* jumps is a ShortCircuit step.
C23_and_or ==
    /\ parse_operator("or") = "OR"
    /\ parse_operator("and") = "AND"
    /\ [][ShortCircuit]_vars


\* the handlers a meta map holds under the name ==
EqHandlers(s, a) ==
    LET meta == meta_of(s, a)
    IN IF meta.type # "MAP" THEN {}
       ELSE {s.maps.obj[meta.n].vals[i] :
                i \in {j \in 1..Len(s.maps.obj[meta.n].keys) :
                          s.maps.obj[meta.n].keys[j] = string("==")}}

\* s2 has just entered the subroutine f with the arguments argv, inside a
\* nested loop of the given kind
EqEntered(s, s2, f, argv, kind) ==
    /\ Len(s2.nest) = Len(s.nest) + (IF kind = "eq_meta" \/ NextOp(s) = "EQ" THEN 1 ELSE 0)
    /\ Last(s2.nest).kind = kind
    /\ Cor(s2).ip = f.n
    /\ depth(s2) = Len(argv)
    /\ \A i \in 1..Len(argv) : item(s2, i - 1) = argv[i]

\* s2 holds the answer flag in place of the two operands, whose cells were
\* the two below depth d
EqAnswer(s2, d, flag) ==
    /\ Cor(s2).stack.depth = d - 1
    /\ top(s2) = boolean(flag)

\* C24: a == b on two vectors or two maps whose left operand has a meta
\* that supplies == (a meta map with an entry ==, or a callable meta that
\* returns a handler for the name ==) calls that handler with (a, b) and
\* yields the truth value of its result; when the meta declines the answer
\* is the built-in equality; values of different types are not equal.
C24_meta_eq ==
    [][(/\ pc = "run" /\ pc' = "run" /\ ~vm.ub /\ vm.routine # NULL
        /\ ~Failed(vm') /\ vm'.routine = vm.routine)
          => /\ (NextOp(vm) = "EQ" /\ Cor(vm).stack.depth >= 2)
                  => LET a == stack_cell(vm, -2)
                         b == stack_cell(vm, -1)
                         meta == meta_of(vm, a)
                         d == Cor(vm).stack.depth
                     IN /\ a.type # b.type => EqAnswer(vm', d, FALSE)
                        /\ (a.type = b.type /\ a.type \in {"VECTOR", "MAP"})
                             => /\ \A h \in EqHandlers(vm, a) :
                                     h.type = "SUBROUTINE"
                                        => EqEntered(vm, vm', h, <<a, b>>, "eq")
                                /\ meta.type = "SUBROUTINE"
                                     => EqEntered(vm, vm', meta, <<string("==")>>, "eq_meta")
                                /\ (meta.type \notin {"SUBROUTINE", "CALLBACK"}
                                      /\ EqHandlers(vm, a) = {})
                                     => EqAnswer(vm', d, equal(vm, a, b))
             /\ (/\ Len(vm.nest) > 0 /\ Last(vm.nest).kind \in {"eq", "eq_meta"}
                 /\ ~Failed(tick(vm)) /\ nest_done(tick(vm), Last(vm.nest)))
                  => LET t == tick(vm)
                         d == mark_base(Cor(t))
                         r == item_or_nil(t, depth(t) > 0, 0)
                         a == stack_ref(Cor(t), d - 2)
                         b == stack_ref(Cor(t), d - 1)
                     IN IF Last(vm.nest).kind = "eq"
                        THEN EqAnswer(vm', d, truth(t, r))
                        ELSE IF r.type = "NIL"
                        THEN EqAnswer(vm', d, equal(t, a, b))
                        ELSE r.type = "SUBROUTINE"
                               => EqEntered(vm, vm', r, <<a, b>>, "eq")]_vars


\* the number of used slots of each object pool
PoolUsed(s) ==
    [vecs |-> Cardinality({i \in DOMAIN s.vecs.used : s.vecs.used[i]}),
     maps |-> Cardinality({i \in DOMAIN s.maps.used : s.maps.used[i]}),
     cors |-> Cardinality({i \in DOMAIN s.cors.used : s.cors.used[i]})]

\* C25: after the collection at the end of a run, successful or failed,
\* every object pool has as many used slots as rela_create_ex left in it
\* (core scope, lib map, bytecode literals): no pooled object allotted
\* during a run survives the run.
C25_pools_baseline ==
    (pc = "idle" /\ Len(vm.hist) > 0)
        => PoolUsed(vm) = PoolUsed(rela_create_ex(vm.prog))


\* nothing the VM allotted is left: empty pools, no code, no routines, no
\* syntax-tree nodes
Released(s) ==
    /\ PoolUsed(s) = [vecs |-> 0, maps |-> 0, cors |-> 0]
    /\ s.code = <<>> /\ s.routines = <<>> /\ s.routine = NULL
    /\ s.scope_core = NULL /\ s.scope_global = NULL
    /\ s.nodes = 0

\* C26: when a module raises a compile error during rela_create_ex the
\* creation is aborted, everything allotted so far is released and NULL is
\* returned; a VM is returned only when every module compiled.
C26_create_fails ==
    /\ pc = "null" => (vm.prog \in DOMAIN CompileErrors /\ Released(vm))
    /\ pc \in {"idle", "run", "destroyed"} => vm.prog \notin DOMAIN CompileErrors


\* the items of the vector x
Items(s, x) == s.vecs.obj[x.n].items

\* C27: for a vector v of size n, v[n] = x appends x, v[i] = x with
\* 0 <= i < n replaces element i only and v[i] reads it, and an assignment
\* or a read at an index greater than n is a fatal error that leaves the
\* vector as it was.
C27_vector_index ==
    (pc = "run" /\ ~vm.ub /\ vm.routine # NULL)
      => /\ (/\ NextOp(vm) = "SET" /\ Cor(vm).stack.depth >= 2
             /\ SetDst(vm).type = "VECTOR" /\ SetKey(vm).type = "INTEGER")
               => LET v == SetDst(vm)
                      i == SetKey(vm).n
                      n == Len(Items(vm, v))
                      t == tick(vm)
                  IN /\ i = n => ~t.jmp /\ Items(t, v) = Append(Items(vm, v), SetVal(vm))
                     /\ (0 <= i /\ i < n)
                          => ~t.jmp /\ Items(t, v) = [Items(vm, v) EXCEPT ![i + 1] = SetVal(vm)]
                     /\ i > n => t.jmp /\ Items(t, v) = Items(vm, v)
         /\ (/\ NextOp(vm) = "GET" /\ Cor(vm).stack.depth >= 2
             /\ stack_cell(vm, -2).type = "VECTOR" /\ stack_cell(vm, -1).type = "INTEGER")
               => LET v == stack_cell(vm, -2)
                      i == stack_cell(vm, -1).n
                      n == Len(Items(vm, v))
                      t == tick(vm)
                  IN /\ (0 <= i /\ i < n) => ~t.jmp /\ top(t) = Items(vm, v)[i + 1]
                     /\ i > n => t.jmp


\* C28: after a host callback has called rela_map_set(vm, m, k, v) with a
\* map m and a non-nil value v, rela_map_get(vm, m, k) returns v: the host
\* callback hset(m, k, v), which does the two calls and pushes the result,
\* leaves v on top of the stack.
C28_map_set_get ==
    [][(/\ Invokes(vm, "hset") /\ pc' = "run" /\ ~Failed(vm')
        /\ depth(AtCall(vm)) = 3
        /\ item(AtCall(vm), 0).type = "MAP"
        /\ item(AtCall(vm), 2).type # "NIL")
          => top(vm') = item(AtCall(vm), 2)]_vars


\* what the running program can still reach from an object: what the
\* collector follows, and for a coroutine also the map literals under
\* construction that arrive() saved in its frames
live_refs(s, node) ==
    gc_refs(s, node)
      \cup (IF node.k # "cor" THEN {}
            ELSE UNION {gc_mark_item(s.cors.obj[node.id].frames[i].map) :
                           i \in 1..Len(s.cors.obj[node.id].frames)})

RECURSIVE Live(_, _)
Live(s, nodes) ==
    LET more == nodes \cup UNION {live_refs(s, node) : node \in nodes}
    IN IF more = nodes THEN nodes ELSE Live(s, more)

InUse(s, node) ==
    CASE node.k = "vec" -> s.vecs.used[node.id]
      [] node.k = "map" -> s.maps.used[node.id]
      [] OTHER -> s.cors.used[node.id]

\* C29: during a run every vector, map and coroutine the program can
\* reach (from the scopes, the bytecode literals and the coroutines of the
\* chain: their stacks, frame locals and map literals under construction,
\* those of suspended callers included) is in use, whatever collections
\* lib.collect or rela_collect have done so far.
C29_collect_keeps_live ==
    (pc = "run" /\ ~vm.ub) => \A node \in Live(vm, gc_roots(vm)) : InUse(vm, node)


\* a state without the inline cache and without the stack cells above the
\* depth of each coroutine
Trimmed(c) ==
    [c EXCEPT !.stack.cells =
        SubSeq(c.stack.cells, 1,
               IF c.stack.depth <= Len(c.stack.cells) THEN c.stack.depth
               ELSE Len(c.stack.cells))]

Uncached(s) ==
    [s EXCEPT !.cache = <<>>,
              !.cors.obj = [c \in DOMAIN s.cors.obj |-> Trimmed(s.cors.obj[c])]]

\* C30: a call site compiled to CFUNC behaves like FNAME followed by CALL
\* every time it executes: whenever a CFUNC is about to execute, executing
\* it leaves the state that FNAME and then CALL on the same name would
\* leave (the cache slot aside), so it calls the value the name resolves to
\* at that moment.
C30_cfunc_is_fname_call ==
    (pc = "run" /\ ~vm.ub /\ vm.routine # NULL /\ NextOp(vm) = "CFUNC")
        => Uncached(op_cfunc(Fetched(vm))) = Uncached(op_call(op_fname(Fetched(vm))))

(***************************************************************************)
(* C31.  The peephole against the code without it                          *)
(***************************************************************************)
\* a run to its end, at most fuel ticks
RECURSIVE run_all(_, _)
run_all(s, fuel) ==
    IF s.routine = NULL \/ s.ub \/ s.bound \/ fuel = 0 THEN s
    ELSE run_all(Step(s), fuel - 1)

\* the first run with module list ml of program p as compile() lays it out
\* when every call appends (a program without loops executes each cell at
\* most once per module)
Unfused(p, ml) ==
    run_all(run_enter([rela_create_ex(p) EXCEPT !.code = Emits[p]], ml),
            Len(Emits[p]) * Len(ml))

\* C31: peephole fusion preserves behaviour on every control path: the
\* first run of a program compiled with the peephole prints the same lines
\* (the operands each print call finds on the stack) and ends with the same
\* status and error as the run of the same calls compiled without it,
\* also when a folded ADD was the target of the jump of an `or`.
C31_fusion_preserves ==
    (pc = "idle" /\ vm.prog \in DOMAIN Emits /\ Len(vm.hist) > 0)
        => vm.hist[1] = Unfused(vm.prog, vm.hist[1].modlist).hist[1]

(***************************************************************************)
(* C32.  A resume inside the coroutine a for statement drives              *)
(***************************************************************************)
\* the coroutine that the innermost for statement under way is driving is
\* running and its next tick resumes a suspended coroutine
DrivenResumes(s) ==
    /\ Invokes(s, "resume")
    /\ Len(s.nest) > 0 /\ Last(s.nest).kind = "for_cor"
    /\ s.routine = Last(s.nest).cor
    /\ ResumeOf(s).type = "COROUTINE"
    /\ s.cors.obj[ResumeOf(s).n].state = COR_SUSPENDED

\* C32: while `for x in cor` drives cor, a resume executed by cor does not
\* give control back to the loop: after that tick the resumed coroutine
\* runs, the iteration of the for statement is still under way (the loop
\* has assigned nothing and moved no instruction pointer) and nothing
\* undefined has happened.
C32_nested_resume ==
    [][DrivenResumes(vm)
          => /\ pc' = "run" /\ ~vm'.ub
             /\ vm'.routine = ResumeOf(vm).n
             /\ vm'.nest = vm.nest]_vars


(***************************************************************************)
(* Lexical nesting of subroutines, read off the listing: process() lays a  *)
(* function out as a JMP over its body, and the body opens with its PID    *)
(* cells.  A body is the half-open range [entry, end) of 0-based cells.    *)
(***************************************************************************)
FuncBodies(cells) ==
    {[entry |-> j, end |-> cells[j].item.n] :
        j \in {i \in 1..(Len(cells) - 1) : cells[i].op = "JMP" /\ cells[i + 1].op = "PID"}}

NoFunc == [entry |-> -1, end |-> -1]

\* the innermost subroutine body that holds the cell at ip
FuncAt(cells, ip) ==
    LET In == {b \in FuncBodies(cells) : b.entry <= ip /\ ip < b.end}
    IN IF In = {} THEN NoFunc
       ELSE CHOOSE b \in In : \A c \in In : c.entry <= b.entry

\* body a is a lexical ancestor of body b (strictly encloses it)
Encloses(a, b) == a.entry < b.entry /\ b.end <= a.end

\* where frame f of a coroutine is executing: the running frame at the
\* coroutine's ip, an older one at the return address the frame above saved
FramePos(cor, f) == IF f = Len(cor.frames) THEN cor.ip ELSE cor.frames[f + 1].ip

\* the local named key of the nearest older frame whose subroutine is a
\* lexical ancestor of the running one
LexicalUp(s, key) ==
    LET cor == Cor(s)
        d == Len(cor.frames)
        fn(f) == FuncAt(code(s), FramePos(cor, f))
        Anc == {f \in 1..(d - 1) :
                   /\ Encloses(fn(f), fn(d))
                   /\ local_slot(cor.frames[f], key) # 0}
        near(f) == Hit(cor.frames[f].locals[local_slot(cor.frames[f], key)].val)
    IN IF Anc = {} THEN Miss
       ELSE near(CHOOSE f \in Anc : \A g \in Anc : g <= f)

\* C33: a name that is not a local of the running function is looked up, by
\* uplocal, only in the frames of the function's lexical ancestors that are
\* on the coroutine's call stack, the nearest such frame first: the result
\* is never a local of a caller that is not a lexical ancestor nor of an
\* outer recursive activation of the same function.
C33_lexical_ancestors ==
    (/\ pc = "run" /\ ~vm.ub /\ vm.routine # NULL
     /\ NextOp(vm) \in {"FNAME", "FIND", "CFUNC"}
     /\ LookupKey(vm).type = "STRING")
        => uplocal(vm, LookupKey(vm).s) = LexicalUp(vm, LookupKey(vm).s)

\* inner, called by its sibling mid, is about to look v up: mid's frame,
\* right below, holds a local v, and the lookup yields the v of outer
C33_witness ==
    /\ pc = "run" /\ ~vm.ub /\ vm.routine # NULL
    /\ vm.prog = "qf"
    /\ NextOp(vm) = "FNAME" /\ LookupKey(vm) = string("v")
    /\ Len(Cor(vm).frames) = 3
    /\ local_slot(Cor(vm).frames[2], "v") # 0
    /\ Cor(vm).frames[2].locals[local_slot(Cor(vm).frames[2], "v")].val = integer(8)
    /\ uplocal(vm, "v") = Hit(integer(7))


\* C34: no coroutine occurs more than once in the routines chain: resume
\* never pushes the running coroutine nor one of those waiting below it.
C34_chain_distinct ==
    \A i, j \in 1..Len(vm.routines) : vm.routines[i] = vm.routines[j] => i = j


\* C35: a yield executed while the routines chain holds one coroutine, the
\* main one, aborts the run through the fatal-error channel: the run ends
\* with a non-zero status and the message of the failed vec_top, and the VM
\* is reset (no running coroutine, an empty chain); execution does not go on.
C35_main_yield_aborts ==
    [][(Invokes(vm, "yield") /\ Len(vm.routines) = 1 /\ vm.routine = Main(vm))
          => /\ pc' = "idle" /\ rc' # 0
             /\ Last(vm'.hist).err = "vec_top underflow"
             /\ vm'.routine = NULL /\ vm'.routines = <<>>]_vars

\* the run of qh has ended at its yield, after the first print only
C35_witness ==
    /\ vm.prog = "qh" /\ pc = "idle" /\ rc # 0
    /\ Len(vm.hist) > 0
    /\ Last(vm.hist).err = "vec_top underflow"
    /\ Last(vm.hist).out = <<<<"1">>>>
    /\ vm.routine = NULL /\ vm.routines = <<>>


\* C36: every collection terminates, whatever object graph the script has
\* built (containers that hold themselves or each other, a container whose
\* meta value is or reaches the container): the tick that calls collect
\* completes the collection.
C36_collect_terminates ==
    [][Invokes(vm, "collect") => (~vm'.ub /\ vm'.gcs = vm.gcs + 1)]_vars


\* C37: for every compiled program each UNLOOP finds the mark-stack depth
\* its LOOP recorded: no run ends with the fatal error
\* `mark stack mismatch (unloop)`, whether a loop is left by break, its
\* body continues, resumes a coroutine or yields.
C37_unloop_marks ==
    \A i \in 1..Len(vm.hist) : vm.hist[i].err # "mark stack mismatch (unloop)"


\* C38: a FOR whose operand is none of the iterable kinds runs no
\* iteration: the tick binds nothing and continues at the loop's exit
\* instruction (its UNLOOP), with the operand and mark stacks as they were.
C38_for_not_iterable ==
    [][(/\ pc = "run" /\ ~vm.ub
        /\ NextOp(vm) = "FOR"
        /\ top(vm).type \in {"NIL", "BOOLEAN", "FLOAT", "STRING", "USERDATA"})
          => /\ pc' = "run" /\ ~vm'.ub
             /\ vm'.routine = vm.routine
             /\ Cor(vm').ip = loops_exit(vm)
             /\ code(vm)[Cor(vm').ip + 1].op = "UNLOOP"
             /\ Cor(vm').stack = Cor(vm).stack
             /\ Cor(vm').marks = Cor(vm).marks]_vars


\* the SET of program ql: the second target of `a, m[k] = 5`, a statement
\* with one value, about to be assigned
SurplusSet(s) ==
    /\ pc = "run" /\ ~s.ub /\ s.routine # NULL
    /\ s.prog = "ql"
    /\ NextOp(s) = "SET"

\* C39: in a multiple assignment with fewer values than targets every
\* surplus target receives nil, an indexed element (SET) as well as a plain
\* name (ASSIGN): after the SET of a surplus target the element holds no
\* value or nil.
C39_surplus_nil ==
    [][SurplusSet(vm)
          => LET key == top(vm)
                 dst == top(pop(vm))
                 held(p) == p = 0 \/ vm'.maps.obj[dst.n].vals[p] = nil
             IN /\ pc' = "run" /\ ~vm'.ub
                /\ dst.type = "MAP"
                /\ held(map_ref(vm', dst.n, key))]_vars


\* the next tick needs a cell past the capacity of one of the running
\* coroutine's fixed arrays: a MARK with the mark stack full, a LOOP without
\* three free loop cells, a call of a subroutine (a frame and a mark) with
\* the frame stack or the mark stack full
AtCapacity(s) ==
    /\ pc = "run" /\ ~s.ub /\ s.routine # NULL
    /\ \/ NextOp(s) = "MARK" /\ Len(Cor(s).marks) >= STACK
       \/ NextOp(s) = "LOOP" /\ Len(Cor(s).loops) + 3 > STACK
       \/ /\ NextOp(s) \in {"CALL", "CFUNC"}
          /\ Callee(s).type = "SUBROUTINE"
          /\ Len(Cor(s).frames) >= STACK \/ Len(Cor(s).marks) >= STACK

\* C40: an operation that would exceed the capacity of the operand, frame,
\* mark or loop stack of a coroutine ends the run through the fatal-error
\* channel (status non-zero), and no depth goes past the bound of its array.
C40_capacity_reported ==
    [][AtCapacity(vm) => (pc' = "idle" /\ rc' # 0 /\ ~vm'.ub)]_vars

====
